---- MODULE Spec2Model ----
(***************************************************************************)
(* Weight transfer between modular BERT models                             *)
(* (models/bert/modeling_modular_bert.py).                                 *)
(*                                                                         *)
(* A model is a map from parameter keys to tensors.  A tensor value is a   *)
(* symbol <<owner, key, index>> naming the element it was initialised as,  *)
(* so that after a transfer every element of the target tells where its    *)
(* value comes from.                                                       *)
(***************************************************************************)
EXTENDS Integers, Sequences, FiniteSets, TLC

(* ---------------------------------------------------------------------- *)
(* Bounds of the model.                                                    *)
(* ---------------------------------------------------------------------- *)
MaxLayers == 2
MaxCalls == 2
VocabSize == 1
MaxPos == 1
TypeVocab == 1

Min(a, b) == IF a < b THEN a ELSE b
Max(a, b) == IF a > b THEN a ELSE b

(* ---------------------------------------------------------------------- *)
(* Tensors.  Every tensor is kept with three axes, missing axes have size  *)
(* 1; indices start at 0.                                                  *)
(* ---------------------------------------------------------------------- *)
IdxSet(sh) == (0 .. sh[1] - 1) \X (0 .. sh[2] - 1) \X (0 .. sh[3] - 1)

\* A freshly initialised tensor of the module `owner`, parameter `key`.
NewTensor(owner, key, sh) ==
    [sh |-> sh, v |-> [ix \in IdxSet(sh) |-> <<owner, key, ix>>]]

\* Python's slice lo:hi on an axis of size n.
ClampLo(lo, n) == Min(lo, n)
ClampHi(hi, n) == Min(hi, n)
SliceLen(lo, hi, n) == Max(0, ClampHi(hi, n) - ClampLo(lo, n))

\* A range is <<lo, hi>> per axis; All selects the whole axis.
All == <<0, 1000>>
UpTo(n) == <<0, n>>

\* t[r1, r2, r3] read as a tensor of its own.
Slice(t, rng) ==
    LET sh == [d \in 1..3 |-> SliceLen(rng[d][1], rng[d][2], t.sh[d])]
        lo == [d \in 1..3 |-> ClampLo(rng[d][1], t.sh[d])]
    IN [sh |-> sh,
        v  |-> [ix \in IdxSet(sh) |->
                  t.v[<<ix[1] + lo[1], ix[2] + lo[2], ix[3] + lo[3]>>]]]

\* torch's rule for t[r1, r2, r3] = val: val must broadcast to the slice.
Broadcasts(valsh, slsh) ==
    \A d \in 1..3 : valsh[d] = slsh[d] \/ valsh[d] = 1

CanSetSlice(t, rng, val) ==
    Broadcasts(val.sh, [d \in 1..3 |-> SliceLen(rng[d][1], rng[d][2], t.sh[d])])

\* t[r1, r2, r3] = val, in place (the caller has checked CanSetSlice).
SetSlice(t, rng, val) ==
    LET lo == [d \in 1..3 |-> ClampLo(rng[d][1], t.sh[d])]
        hi == [d \in 1..3 |-> ClampHi(rng[d][2], t.sh[d])]
        In(ix) == \A d \in 1..3 : ix[d] >= lo[d] /\ ix[d] < hi[d]
        From(ix) == [d \in 1..3 |-> IF val.sh[d] = 1 THEN 0 ELSE ix[d] - lo[d]]
    IN [sh |-> t.sh,
        v  |-> [ix \in IdxSet(t.sh) |->
                  IF In(ix) THEN val.v[<<From(ix)[1], From(ix)[2], From(ix)[3]>>]
                  ELSE t.v[ix]]]

\* torch.functional.F.interpolate(t, size) in its default mode (nearest)
\* along the last axis: out[i] = in[floor(i * in_size / size)].
Interpolate(t, size) ==
    LET sh == <<t.sh[1], t.sh[2], size>>
    IN [sh |-> sh,
        v  |-> [ix \in IdxSet(sh) |->
                  t.v[<<ix[1], ix[2], (ix[3] * t.sh[3]) \div size>>]]]

\* np.transpose of a matrix.
Transpose(t) ==
    LET sh == <<t.sh[2], t.sh[1], t.sh[3]>>
    IN [sh |-> sh, v |-> [ix \in IdxSet(sh) |-> t.v[<<ix[2], ix[1], ix[3]>>]]]

\* GaussianRandomProjection(n).fit_transform(x): x is [samples, features],
\* the result is [samples, n]; its entries are fresh numbers that depend on
\* the random matrix drawn by this fit, named by `seed`.
RandomProject(seed, n, x, key) ==
    LET sh == <<x.sh[1], n, 1>>
    IN [sh |-> sh, v |-> [ix \in IdxSet(sh) |-> <<seed, key, ix>>]]

(* ---------------------------------------------------------------------- *)
(* Configurations.  A head descriptor 'sa_wma_64' is the record            *)
(* [t |-> "sa", s |-> "wma", k |-> 0, d |-> 64]; a convolutional head      *)
(* 'c_5_64' has s = "num" (its similarity field is a number) and k = 5.    *)
(* Layers are numbered from 1; layer i here is layer_id i-1 of the source. *)
(* ---------------------------------------------------------------------- *)
HeadDesc(t, s, k, d) == [t |-> t, s |-> s, k |-> k, d |-> d]

IsNumeric(h) == h.s = "num"

\* hidden_dim_list[i], ff_dim_list[i], attention_heads_list[i]
Hidden(cfg, i) == cfg.layers[i].H
FF(cfg, i) == cfg.layers[i].ff
Heads(cfg, i) == cfg.layers[i].heads
NumLayers(cfg) == Len(cfg.layers)

\* int(attention_heads_list[i][0].split('_')[2]) in heterogeneous mode,
\* int(hidden_size / num_attention_heads) otherwise.
HeadSize(cfg, i) ==
    IF cfg.hetero THEN Heads(cfg, i)[1].d
    ELSE Hidden(cfg, i) \div cfg.layers[i].nh

NumHeads(cfg, i) ==
    IF cfg.hetero THEN Len(Heads(cfg, i)) ELSE cfg.layers[i].nh

AllHeadSize(cfg, i) == NumHeads(cfg, i) * HeadSize(cfg, i)

\* all_head_size of BertSelfOutputModular
SelfOutputIn(cfg, i) ==
    IF cfg.hetero THEN Len(Heads(cfg, i)) * Heads(cfg, i)[1].d
    ELSE Hidden(cfg, i)

\* The heads of layer i that own a bilinear matrix W<n>, and those that
\* own convolution sub-layers <name><n>, in head order.
RECURSIVE CountBefore(_, _, _)
CountBefore(hs, j, kind) ==
    IF j <= 1 THEN 0
    ELSE CountBefore(hs, j - 1, kind)
         + (IF (kind = "wma" /\ hs[j - 1].s = "wma")
               \/ (kind = "num" /\ IsNumeric(hs[j - 1])) THEN 1 ELSE 0)

NumWma(cfg, i) == CountBefore(Heads(cfg, i), Len(Heads(cfg, i)) + 1, "wma")
NumConv(cfg, i) == CountBefore(Heads(cfg, i), Len(Heads(cfg, i)) + 1, "num")

\* The head whose constructor created W<n> (n from 0), 0 if none.
WmaOwner(cfg, i, n) ==
    LET S == {j \in 1..Len(Heads(cfg, i)) :
                 Heads(cfg, i)[j].s = "wma" /\ CountBefore(Heads(cfg, i), j, "wma") = n}
    IN IF S = {} THEN 0 ELSE CHOOSE j \in S : TRUE

ConvOwner(cfg, i, n) ==
    LET S == {j \in 1..Len(Heads(cfg, i)) :
                 IsNumeric(Heads(cfg, i)[j]) /\ CountBefore(Heads(cfg, i), j, "num") = n}
    IN IF S = {} THEN 0 ELSE CHOOSE j \in S : TRUE

\* ProjRequired gone wrong: no output block gets a projection.
ProjRequiredNever(cfg, i) == FALSE

\* proj_required of BertOutputModular
ProjRequired(cfg, i) ==
    IF i = NumLayers(cfg) THEN FALSE
    ELSE Hidden(cfg, i) # Hidden(cfg, i + 1)

(* ---------------------------------------------------------------------- *)
(* Parameters.  A key is <<block, layer, name, n>>.                        *)
(* ---------------------------------------------------------------------- *)
EmbKeys ==
    {<<"emb", 0, nm, 0>> : nm \in {"word", "pos", "tok", "LN.w", "LN.b", "position_ids"}}

QKVNames == {"q.w", "q.b", "k.w", "k.b", "v.w", "v.b"}
ConvNames == {"kc.bias", "kc.dw", "kc.pw", "ck.w", "ck.b", "co.w", "co.b"}

SelfKeys(cfg, i) ==
    {<<"self", i, nm, 0>> : nm \in QKVNames}
    \cup (IF cfg.rel THEN {<<"self", i, "dist", 0>>} ELSE {})
    \cup (IF cfg.hetero
          THEN {<<"self", i, "W", n>> : n \in 0 .. NumWma(cfg, i) - 1}
               \cup {<<"self", i, nm, n>> : nm \in ConvNames, n \in 0 .. NumConv(cfg, i) - 1}
          ELSE IF cfg.layers[i].at = "sa" THEN {<<"self", i, "W", 0>>} ELSE {})

SelfOutputKeys(cfg, i) ==
    {<<"aout", i, nm, 0>> : nm \in {"dense.w", "dense.b", "LN.w", "LN.b"}}

AttentionKeys(cfg, i) == SelfKeys(cfg, i) \cup SelfOutputKeys(cfg, i)

IntermediateKeys(cfg, i) ==
    {<<"ffn", i, nm, f>> : nm \in {"w", "b"}, f \in 0 .. Len(FF(cfg, i)) - 1}

OutputKeys(cfg, i) ==
    {<<"out", i, nm, 0>> : nm \in {"dense.w", "dense.b", "LN.w", "LN.b"}}
    \cup (IF ProjRequired(cfg, i)
          THEN {<<"out", i, "proj.w", 0>>, <<"out", i, "proj.b", 0>>} ELSE {})

LayerKeys(cfg, i) ==
    AttentionKeys(cfg, i) \cup IntermediateKeys(cfg, i) \cup OutputKeys(cfg, i)

EncoderKeys(cfg) == UNION {LayerKeys(cfg, i) : i \in 1 .. NumLayers(cfg)}

ClsKeys ==
    {<<"cls", 0, nm, 0>> :
        nm \in {"t.dense.w", "t.dense.b", "t.LN.w", "t.LN.b", "decoder.w", "bias"}}

\* The pooler of a BertModelModular built with add_pooling_layer; the
\* masked-language model has none.
PoolerKeys == {<<"pooler", 0, "dense.w", 0>>, <<"pooler", 0, "dense.b", 0>>}

Keys(cfg) == EmbKeys \cup EncoderKeys(cfg) \cup ClsKeys

\* The kernel size of the n-th convolution sub-layer of layer i.
ConvKernel(cfg, i, n) == Heads(cfg, i)[ConvOwner(cfg, i, n)].k

ShapeOf(cfg, key) ==
    LET b == key[1]  i == key[2]  nm == key[3]  n == key[4]
        H0 == Hidden(cfg, 1)
        HL == Hidden(cfg, NumLayers(cfg))
    IN CASE b = "emb" ->
              (CASE nm = "word" -> <<VocabSize, H0, 1>>
                 [] nm = "pos" -> <<MaxPos, H0, 1>>
                 [] nm = "tok" -> <<TypeVocab, H0, 1>>
                 [] nm = "position_ids" -> <<1, MaxPos, 1>>
                 [] OTHER -> <<H0, 1, 1>>)
         [] b = "self" ->
              (CASE nm \in {"q.w", "k.w", "v.w"} -> <<AllHeadSize(cfg, i), Hidden(cfg, i), 1>>
                 [] nm \in {"q.b", "k.b", "v.b"} -> <<AllHeadSize(cfg, i), 1, 1>>
                 [] nm = "dist" -> <<2 * MaxPos - 1, HeadSize(cfg, i), 1>>
                 [] nm = "W" -> <<HeadSize(cfg, i), HeadSize(cfg, i), 1>>
                 [] nm = "kc.bias" -> <<HeadSize(cfg, i), 1, 1>>
                 [] nm = "kc.dw" -> <<HeadSize(cfg, i), 1, ConvKernel(cfg, i, n)>>
                 [] nm = "kc.pw" -> <<HeadSize(cfg, i), HeadSize(cfg, i), 1>>
                 [] nm = "ck.w" -> <<ConvKernel(cfg, i, n), HeadSize(cfg, i), 1>>
                 [] nm = "ck.b" -> <<ConvKernel(cfg, i, n), 1, 1>>
                 [] nm = "co.w" -> <<HeadSize(cfg, i), HeadSize(cfg, i), 1>>
                 [] OTHER -> <<HeadSize(cfg, i), 1, 1>>)
         [] b = "aout" ->
              (CASE nm = "dense.w" -> <<Hidden(cfg, i), SelfOutputIn(cfg, i), 1>>
                 [] OTHER -> <<Hidden(cfg, i), 1, 1>>)
         [] b = "ffn" ->
              (CASE nm = "w" ->
                      <<FF(cfg, i)[n + 1],
                        IF n = 0 THEN Hidden(cfg, i) ELSE FF(cfg, i)[n], 1>>
                 [] OTHER -> <<FF(cfg, i)[n + 1], 1, 1>>)
         [] b = "out" ->
              (CASE nm = "dense.w" -> <<Hidden(cfg, i), FF(cfg, i)[Len(FF(cfg, i))], 1>>
                 [] nm = "proj.w" -> <<Hidden(cfg, i + 1), Hidden(cfg, i), 1>>
                 [] nm = "proj.b" -> <<Hidden(cfg, i + 1), 1, 1>>
                 [] OTHER -> <<Hidden(cfg, i), 1, 1>>)
         [] OTHER ->
              (CASE nm \in {"t.dense.w", "dense.w"} -> <<HL, HL, 1>>
                 [] nm = "decoder.w" -> <<VocabSize, HL, 1>>
                 [] nm = "bias" -> <<VocabSize, 1, 1>>
                 [] OTHER -> <<HL, 1, 1>>)

\* The buffer position_ids is torch.arange(...) in every model; every other
\* entry starts as a value of its own (random initialisation for the
\* target, trained weights for the source).
BuildModel(owner, cfg) ==
    [key \in Keys(cfg) |->
        NewTensor(IF key[3] = "position_ids" THEN "C" ELSE owner, key, ShapeOf(cfg, key))]

(* ---------------------------------------------------------------------- *)
(* Statements.  Which statements a call of load_model_from_source runs,    *)
(* and in which order, depends on the two configs, the transfer mode and   *)
(* the debug flag only; the call is therefore the list of its statements,  *)
(* run one after the other until one raises.                               *)
(*   copy    target.<key>[rng] = source.<key>[srng]                        *)
(*   interp  target.<key>[rng] = F.interpolate(source.<key>[srng], n)      *)
(*   rp      target.<key>[rng] = rp.fit_transform(source.<key>[srng]),     *)
(*           rp of n components; tr: transposed before and after           *)
(*   load    <keys>.load_state_dict(source <skeys>); count += cnt          *)
(*   bind    setattr(target, <key>, getattr(source, <key>))                *)
(*   raise   an expression that raises e                                   *)
(* j is the head index the statement is run for (0: none).                 *)
(* ---------------------------------------------------------------------- *)
Whole == <<All, All, All>>

Stmt(op, key, rng, srng, n, j) ==
    [op |-> op, key |-> key, rng |-> rng, srng |-> srng, n |-> n, j |-> j,
     tr |-> FALSE, keys |-> {}, skeys |-> {}, cnt |-> 0, e |-> ""]

Copy(key, rng, j) == Stmt("copy", key, rng, rng, 0, j)
Interp(key, rng, srng, n, j) == Stmt("interp", key, rng, srng, n, j)
Project(key, rng, srng, n, j) == Stmt("rp", key, rng, srng, n, j)
ProjectT(key, rng, n, j) == [Stmt("rp", key, rng, rng, n, j) EXCEPT !.tr = TRUE]
Load(keys, skeys, cnt, j) ==
    [Stmt("load", <<"", 0, "", 0>>, Whole, Whole, 0, j)
        EXCEPT !.keys = keys, !.skeys = skeys, !.cnt = cnt]
Bind(key, j) == Stmt("bind", key, Whole, Whole, 0, j)
RaiseStmt(e, j) == [Stmt("raise", <<"", 0, "", 0>>, Whole, Whole, 0, j) EXCEPT !.e = e]

\* len(module.state_dict()): intermediate.dense and
\* intermediate.sequential[0] are one layer registered twice, and
\* predictions.bias is registered again as predictions.decoder.bias.
TwiceKeys(keys) ==
    {key \in keys : (key[1] = "ffn" /\ key[4] = 0) \/ (key[1] = "cls" /\ key[3] = "bias")}

StateDictLen(keys) == Cardinality(keys) + Cardinality(TwiceKeys(keys))

(* ---------------------------------------------------------------------- *)
(* load_model_from_source, embeddings.                                     *)
(* ---------------------------------------------------------------------- *)
Emb(nm) == <<"emb", 0, nm, 0>>

LoadEmbeddings(cT, cS, mode) ==
    IF Hidden(cT, 1) = Hidden(cS, 1)
    THEN <<Load(EmbKeys, EmbKeys, StateDictLen(EmbKeys), 0)>>
    ELSE LET lower == Min(Hidden(cT, 1), Hidden(cS, 1))
             rows == <<UpTo(lower), All, All>>
             cols == <<All, UpTo(lower), All>>
         IN <<Copy(Emb("LN.w"), rows, 0), Copy(Emb("LN.b"), rows, 0)>>
            \o (IF mode = "OD"
                THEN <<Copy(Emb("word"), cols, 0), Copy(Emb("pos"), cols, 0),
                       Copy(Emb("tok"), cols, 0)>>
                ELSE <<Project(Emb("word"), cols, cols, lower, 0),
                       Project(Emb("pos"), cols, cols, lower, 0),
                       Project(Emb("tok"), cols, cols, lower, 0)>>)

(* ---------------------------------------------------------------------- *)
(* load_model_from_source, one layer in heterogeneous mode.  cx holds the  *)
(* call's constants: cT and cS (the two configs), mode (transfer_mode),    *)
(* debug, and i (the layer).                                               *)
(* ---------------------------------------------------------------------- *)
SelfKey(cx, nm) == <<"self", cx.i, nm, 0>>
AOutKey(cx, nm) == <<"aout", cx.i, nm, 0>>
OutKey(cx, nm) == <<"out", cx.i, nm, 0>>

LowerHidden(cx) == Min(Hidden(cx.cT, cx.i), Hidden(cx.cS, cx.i))
LowerHeadSize(cx) == Min(HeadSize(cx.cT, cx.i), HeadSize(cx.cS, cx.i))
SameHidden(cx) == Hidden(cx.cT, cx.i) = Hidden(cx.cS, cx.i)
SameHeadSize(cx) == HeadSize(cx.cT, cx.i) = HeadSize(cx.cS, cx.i)

\* j*attention_head_size:(j+1)*attention_head_size, for the j-th head
\* counted from 1; the size is the target's.
HeadRange(cx, j) ==
    <<(j - 1) * HeadSize(cx.cT, cx.i), j * HeadSize(cx.cT, cx.i)>>

\* The relative-position distance embedding: an attribute only of models
\* with a relative position_embedding_type.
LoadDistance(cx) ==
    IF ~cx.cT.rel \/ ~cx.cS.rel THEN <<RaiseStmt("AttributeError", 0)>>
    ELSE IF SameHeadSize(cx)
    THEN <<Load({SelfKey(cx, "dist")}, {SelfKey(cx, "dist")}, 0, 0)>>
    ELSE IF cx.mode = "OD"
    THEN <<Copy(SelfKey(cx, "dist"), <<All, UpTo(LowerHeadSize(cx)), All>>, 0)>>
    ELSE <<Project(SelfKey(cx, "dist"), <<All, UpTo(LowerHeadSize(cx)), All>>,
                   Whole, LowerHeadSize(cx), 0)>>

\* The query/key/value rows of head j; the code does this under `if debug:`.
LoadHeadQKV(cx, j) ==
    LET rb == <<HeadRange(cx, j), All, All>>
        rw == <<HeadRange(cx, j), UpTo(LowerHidden(cx)), All>>
    IN <<Copy(SelfKey(cx, "q.b"), rb, j), Copy(SelfKey(cx, "k.b"), rb, j),
         Copy(SelfKey(cx, "v.b"), rb, j)>>
       \o (IF ~SameHidden(cx)
           THEN IF cx.mode = "OD"
                THEN <<Copy(SelfKey(cx, "q.w"), rw, j), Copy(SelfKey(cx, "k.w"), rw, j),
                       Copy(SelfKey(cx, "v.w"), rw, j)>>
                ELSE <<Project(SelfKey(cx, "q.w"), rw, rw, LowerHidden(cx), j),
                       Project(SelfKey(cx, "k.w"), rw, rw, LowerHidden(cx), j),
                       Project(SelfKey(cx, "v.w"), rw, rw, LowerHidden(cx), j)>>
           ELSE <<Copy(SelfKey(cx, "q.w"), rb, j), Copy(SelfKey(cx, "k.w"), rb, j),
                  Copy(SelfKey(cx, "v.w"), rb, j)>>)

\* The bilinear matrix W<wc>.  With equal head sizes the target's attribute
\* is set to the source's Parameter; otherwise the OD branch reads the
\* undefined name `source` and the RP branch calls torch.from_nump, which
\* does not exist.
LoadBilinear(cx, j, wc) ==
    IF SameHeadSize(cx) THEN <<Bind(<<"self", cx.i, "W", wc>>, j)>>
    ELSE IF cx.mode = "OD" THEN <<RaiseStmt("NameError", j)>>
    ELSE <<RaiseStmt("AttributeError", j)>>

\* The convolution sub-layers <name><cc>, for head j.
LoadConv(cx, j, cc) ==
    LET hT == Heads(cx.cT, cx.i)[j]
        hS == Heads(cx.cS, cx.i)[j]
        ls == Min(hT.k, hS.k)
        la == LowerHeadSize(cx)
        kcb == <<"self", cx.i, "kc.bias", cc>>
        kcd == <<"self", cx.i, "kc.dw", cc>>
        kcp == <<"self", cx.i, "kc.pw", cc>>
        ckw == <<"self", cx.i, "ck.w", cc>>
        ckb == <<"self", cx.i, "ck.b", cc>>
        cow == <<"self", cx.i, "co.w", cc>>
        cob == <<"self", cx.i, "co.b", cc>>
    IN IF SameHeadSize(cx) /\ hT.k = hS.k
       THEN <<Load({kcb, kcd, kcp}, {kcb, kcd, kcp}, 0, j),
              Load({ckw, ckb}, {ckw, ckb}, 0, j),
              Load({cow, cob}, {cow, cob}, 0, j)>>
       ELSE <<Copy(kcb, <<UpTo(la), All, All>>, j),
              Interp(kcd, <<UpTo(la), All, UpTo(ls)>>, <<UpTo(la), All, All>>, ls, j),
              Copy(kcp, <<UpTo(la), UpTo(la), All>>, j),
              Copy(ckw, <<UpTo(ls), UpTo(la), All>>, j),
              Copy(ckb, <<UpTo(ls), All, All>>, j),
              Copy(cow, <<UpTo(la), UpTo(la), All>>, j),
              Copy(cob, <<UpTo(la), All, All>>, j)>>

\* The attention output projection; the code does this once per head
\* index j, whether or not the head types match.
LoadSelfOutputDense(cx, j) ==
    IF AllHeadSize(cx.cT, cx.i) = AllHeadSize(cx.cS, cx.i) /\ SameHidden(cx)
    THEN <<Load(SelfOutputKeys(cx.cT, cx.i), SelfOutputKeys(cx.cS, cx.i), 0, j)>>
    ELSE LET rl == <<UpTo(LowerHidden(cx)), HeadRange(cx, j), All>>
         IN <<Copy(AOutKey(cx, "dense.b"), <<UpTo(LowerHidden(cx)), All, All>>, j)>>
            \o (IF ~SameHidden(cx)
                THEN IF cx.mode = "OD"
                     THEN <<Copy(AOutKey(cx, "dense.w"), rl, j)>>
                     ELSE <<ProjectT(AOutKey(cx, "dense.w"), rl, LowerHidden(cx), j)>>
                ELSE <<Copy(AOutKey(cx, "dense.w"), <<All, HeadRange(cx, j), All>>, j)>>)

\* Head j is of a matching pair of bilinear heads / of convolutional heads.
BothWma(cx, j) ==
    /\ Heads(cx.cT, cx.i)[j].t = Heads(cx.cS, cx.i)[j].t
    /\ Heads(cx.cT, cx.i)[j].s = "wma"
    /\ Heads(cx.cS, cx.i)[j].s = "wma"

BothConv(cx, j) ==
    /\ Heads(cx.cT, cx.i)[j].t = Heads(cx.cS, cx.i)[j].t
    /\ ~BothWma(cx, j)
    /\ IsNumeric(Heads(cx.cT, cx.i)[j])

\* One turn of `for j in range(min(number of heads))`.
LoadHead(cx, j, wc, cc) ==
    (IF Heads(cx.cT, cx.i)[j].t = Heads(cx.cS, cx.i)[j].t /\ cx.debug
     THEN LoadHeadQKV(cx, j) ELSE <<>>)
    \o (IF BothWma(cx, j) THEN LoadBilinear(cx, j, wc)
        ELSE IF BothConv(cx, j) THEN LoadConv(cx, j, cc)
        ELSE <<>>)
    \o LoadSelfOutputDense(cx, j)

RECURSIVE LoadHeads(_, _, _, _)
LoadHeads(cx, j, wc, cc) ==
    IF j > Min(NumHeads(cx.cT, cx.i), NumHeads(cx.cS, cx.i)) THEN <<>>
    ELSE LoadHead(cx, j, wc, cc)
         \o LoadHeads(cx, j + 1, IF BothWma(cx, j) THEN wc + 1 ELSE wc,
                      IF BothConv(cx, j) THEN cc + 1 ELSE cc)

\* A LayerNorm of width hidden_dim_list[i].
LoadLayerNorm(cx, w, b) ==
    IF SameHidden(cx) THEN <<Load({w, b}, {w, b}, 0, 0)>>
    ELSE <<Copy(w, <<UpTo(LowerHidden(cx)), All, All>>, 0),
           Copy(b, <<UpTo(LowerHidden(cx)), All, All>>, 0)>>

\* The feed-forward stages, `for f in range(min(number of stages))`.
RECURSIVE LoadFeedForward(_, _)
LoadFeedForward(cx, f) ==
    IF f >= Min(Len(FF(cx.cT, cx.i)), Len(FF(cx.cS, cx.i))) THEN <<>>
    ELSE LET w == <<"ffn", cx.i, "w", f>>
             b == <<"ffn", cx.i, "b", f>>
             d0 == Min(ShapeOf(cx.cT, w)[1], ShapeOf(cx.cS, w)[1])
             d1 == Min(ShapeOf(cx.cT, w)[2], ShapeOf(cx.cS, w)[2])
         IN <<Copy(w, <<UpTo(d0), UpTo(d1), All>>, 0), Copy(b, <<UpTo(d0), All, All>>, 0)>>
            \o LoadFeedForward(cx, f + 1)

\* The output block's dense layer.
LoadOutputDense(cx) ==
    LET ffT == FF(cx.cT, cx.i)
        ffS == FF(cx.cS, cx.i)
        ol == Min(ffT[Len(ffT)], ffS[Len(ffS)])
        rl == <<UpTo(LowerHidden(cx)), UpTo(ol), All>>
    IN <<Copy(OutKey(cx, "dense.b"), <<UpTo(LowerHidden(cx)), All, All>>, 0)>>
       \o (IF ~SameHidden(cx)
           THEN IF cx.mode = "OD"
                THEN <<Copy(OutKey(cx, "dense.w"), rl, 0)>>
                ELSE <<ProjectT(OutKey(cx, "dense.w"), rl, LowerHidden(cx), 0)>>
           ELSE <<Copy(OutKey(cx, "dense.w"), <<All, UpTo(ol), All>>, 0)>>)

LoadHeteroLayer(cx) ==
    LoadDistance(cx)
    \o LoadHeads(cx, 1, 0, 0)
    \o LoadLayerNorm(cx, AOutKey(cx, "LN.w"), AOutKey(cx, "LN.b"))
    \o LoadFeedForward(cx, 0)
    \o LoadOutputDense(cx)
    \o LoadLayerNorm(cx, OutKey(cx, "LN.w"), OutKey(cx, "LN.b"))

RECURSIVE LoadHeteroLayers(_, _)
LoadHeteroLayers(cx, i) ==
    IF i > Min(NumLayers(cx.cT), NumLayers(cx.cS)) THEN <<>>
    ELSE LoadHeteroLayer([cx EXCEPT !.i = i]) \o LoadHeteroLayers(cx, i + 1)

(* ---------------------------------------------------------------------- *)
(* load_model_from_source, homogeneous mode: the loop over the layers.     *)
(* ---------------------------------------------------------------------- *)
SameAttention(cT, cS, i) ==
    /\ Hidden(cT, i) = Hidden(cS, i)
    /\ cT.layers[i].nh = cS.layers[i].nh
    /\ cT.layers[i].sim = cS.layers[i].sim

\* i + 1 < min(number of layers) and hidden_dim_list[i+1] equal, i from 0
NextHiddenSame(cT, cS, i) ==
    /\ i < Min(NumLayers(cT), NumLayers(cS))
    /\ Hidden(cT, i + 1) = Hidden(cS, i + 1)

\* <block>.load_state_dict(...); count += len(source <block>.state_dict())
LoadBlock(tkeys, skeys) == <<Load(tkeys, skeys, StateDictLen(skeys), 0)>>

LoadHomoLayer(cT, cS, i) ==
    IF ~SameAttention(cT, cS, i) THEN <<>>
    ELSE LoadBlock(AttentionKeys(cT, i), AttentionKeys(cS, i))
         \o (IF FF(cT, i) # FF(cS, i) THEN <<>>
             ELSE LoadBlock(IntermediateKeys(cT, i), IntermediateKeys(cS, i))
                  \o (IF ~NextHiddenSame(cT, cS, i) THEN <<>>
                      ELSE LoadBlock(OutputKeys(cT, i), OutputKeys(cS, i))))

\* LoadHomoLayers gone wrong: a layer of another attention type is passed
\* over and the loop goes on, where the code leaves the loop.
RECURSIVE LoadHomoLayersNoBreak(_, _, _)
LoadHomoLayersNoBreak(cT, cS, i) ==
    IF i > Min(NumLayers(cT), NumLayers(cS)) THEN <<>>
    ELSE (IF cT.layers[i].at # cS.layers[i].at THEN <<>> ELSE LoadHomoLayer(cT, cS, i))
         \o LoadHomoLayersNoBreak(cT, cS, i + 1)

RECURSIVE LoadHomoLayers(_, _, _)
LoadHomoLayers(cT, cS, i) ==
    IF i > Min(NumLayers(cT), NumLayers(cS)) THEN <<>>
    ELSE IF cT.layers[i].at # cS.layers[i].at THEN <<>>
    ELSE LoadHomoLayer(cT, cS, i) \o LoadHomoLayers(cT, cS, i + 1)

(* ---------------------------------------------------------------------- *)
(* The statements of BertModelModular.load_model_from_source and of        *)
(* BertForMaskedLMModular.load_model_from_source.                          *)
(* ---------------------------------------------------------------------- *)
BertStatements(cT, cS, mode, debug) ==
    IF cT.hetero # cS.hetero THEN <<RaiseStmt("AssertionError", 0)>>
    ELSE LoadEmbeddings(cT, cS, mode)
         \o (IF cT.hetero
             THEN LoadHeteroLayers([cT |-> cT, cS |-> cS, mode |-> mode,
                                    debug |-> debug, i |-> 1], 1)
             ELSE LoadHomoLayers(cT, cS, 1))

MLMStatements(cT, cS, mode, debug) ==
    BertStatements(cT, cS, mode, debug) \o <<Load(ClsKeys, ClsKeys, 0, 0)>>

\* total = len(embeddings.state_dict()) + len(encoder.state_dict())
BertTotal(cT) == StateDictLen(EmbKeys) + StateDictLen(EncoderKeys(cT))

(* ---------------------------------------------------------------------- *)
(* Running the statements.  The state of a call: the target's own tensors  *)
(* (tgt), the source's tensors (src), the attributes of the target that    *)
(* are bound to a Parameter object of the source (alias: target key ->     *)
(* source key), the exception raised (err, "" for none) and the local      *)
(* variable count.  What was written before an exception stays written.    *)
(* ---------------------------------------------------------------------- *)
NoAlias == [key \in {} |-> key]

\* The two RuntimeErrors of torch met here: a right-hand side that does not
\* broadcast to the slice it is assigned to, and a strict load_state_dict
\* with a size mismatch or with missing or unexpected keys.
ShapeError == "RuntimeError: shape mismatch"
LoadError == "RuntimeError: load_state_dict"

\* The tensor behind an attribute of the target.
TGet(st, key) ==
    IF key \in DOMAIN st.alias THEN st.src[st.alias[key]] ELSE st.tgt[key]

\* TPut gone wrong: the write lands in the source's tensor of that name.
TPutIntoSource(st, key, t) == [st EXCEPT !.src[key] = t]

\* An in-place write into the tensor behind an attribute of the target.
TPut(st, key, t) ==
    IF key \in DOMAIN st.alias
    THEN [st EXCEPT !.src[st.alias[key]] = t]
    ELSE [st EXCEPT !.tgt[key] = t]

\* RightHandSide gone wrong: a plain copy goes through a random projection
\* as well.
RightHandSideAllProjected(st, s, seed) ==
    LET x == Slice(st.src[s.key], s.srng)
    IN CASE s.op = "copy" -> RandomProject(seed, x.sh[2], x, s.key)
         [] s.op = "interp" -> Interpolate(x, s.n)
         [] s.op = "rp" /\ ~s.tr -> RandomProject(seed, s.n, x, s.key)
         [] OTHER -> Transpose(RandomProject(seed, s.n, Transpose(x), s.key))

\* The right-hand side of a copy, interp or rp statement; rp.fit_transform
\* raises on an array without samples or features (a shape with a 0).
RightHandSide(st, s, seed) ==
    LET x == Slice(st.src[s.key], s.srng)
    IN CASE s.op = "copy" -> x
         [] s.op = "interp" -> Interpolate(x, s.n)
         [] s.op = "rp" /\ ~s.tr -> RandomProject(seed, s.n, x, s.key)
         [] OTHER -> Transpose(RandomProject(seed, s.n, Transpose(x), s.key))

CanProject(st, s) ==
    LET x == Slice(st.src[s.key], s.srng)
    IN x.sh[1] > 0 /\ x.sh[2] > 0

\* target.<key>[rng] = val
AssignSlice(st, key, rng, val) ==
    IF ~CanSetSlice(TGet(st, key), rng, val) THEN [st EXCEPT !.err = ShapeError]
    ELSE TPut(st, key, SetSlice(TGet(st, key), rng, val))

\* module.load_state_dict(source_module.state_dict()), strict: every entry
\* present on both sides with the same shape is copied; then a
\* RuntimeError is raised if a shape differed or a key is missing or
\* unexpected.
\* CopyAll gone wrong: the tensors are exchanged, the source taking the
\* target's.
RECURSIVE CopyAllExchanging(_, _)
CopyAllExchanging(st, keys) ==
    IF keys = {} THEN st
    ELSE LET key == CHOOSE x \in keys : TRUE
         IN CopyAllExchanging([TPut(st, key, st.src[key]) EXCEPT !.src[key] = TGet(st, key)],
                              keys \ {key})

\* CopyAll gone wrong: a parameter of source layer i lands in target layer
\* i + 1 when that layer has a parameter of the same name and shape.
RECURSIVE CopyAllIntoNextLayer(_, _)
CopyAllIntoNextLayer(st, keys) ==
    IF keys = {} THEN st
    ELSE LET key == CHOOSE x \in keys : TRUE
             nxt == <<key[1], key[2] + 1, key[3], key[4]>>
             to == IF nxt \in DOMAIN st.tgt /\ st.tgt[nxt].sh = st.src[key].sh
                   THEN nxt ELSE key
         IN CopyAllIntoNextLayer(TPut(st, to, st.src[key]), keys \ {key})

RECURSIVE CopyAll(_, _)
CopyAll(st, keys) ==
    IF keys = {} THEN st
    ELSE LET key == CHOOSE x \in keys : TRUE
         IN CopyAll(TPut(st, key, st.src[key]), keys \ {key})

LoadStateDict(st, tkeys, skeys, cnt) ==
    LET same == {key \in tkeys \cap skeys : TGet(st, key).sh = st.src[key].sh}
        st1 == CopyAll(st, same)
    IN IF same = tkeys /\ same = skeys THEN [st1 EXCEPT !.count = @ + cnt]
       ELSE [st1 EXCEPT !.err = LoadError]

\* setattr(target, 'W<n>', getattr(source, 'W<n>')): the attribute of the
\* target becomes the Parameter object of the source.
BindToSource(st, key) ==
    [st EXCEPT !.alias =
        [x \in DOMAIN st.alias \cup {key} |-> IF x = key THEN key ELSE st.alias[x]]]

RunStatement(st, s, seed) ==
    CASE s.op = "load" -> LoadStateDict(st, s.keys, s.skeys, s.cnt)
      [] s.op = "bind" -> BindToSource(st, s.key)
      [] s.op = "raise" -> [st EXCEPT !.err = s.e]
      [] s.op = "rp" /\ ~CanProject(st, s) -> [st EXCEPT !.err = "ValueError"]
      [] OTHER -> AssignSlice(st, s.key, s.rng, RightHandSide(st, s, seed))

RECURSIVE Run(_, _, _, _)
Run(st, prog, k, seed) ==
    IF k > Len(prog) \/ st.err # "" THEN st
    ELSE Run(RunStatement(st, prog[k], seed), prog, k + 1, seed)

\* self.state_dict(): the tensor behind every key of the target.
StateDict(st) == [key \in DOMAIN st.tgt |-> TGet(st, key)]

\* torch.sum(torch.eq(value, initial))
NumEqual(t, t0) == Cardinality({ix \in IdxSet(t.sh) : t.v[ix] = t0.v[ix]})
NumElements(t) == t.sh[1] * t.sh[2] * t.sh[3]

RECURSIVE SumOver(_, _, _, _)
SumOver(keys, sd, sd0, what) ==
    IF keys = {} THEN 0
    ELSE LET key == CHOOSE x \in keys : TRUE
             one == IF what = "equal" THEN NumEqual(sd[key], sd0[key])
                    ELSE NumElements(sd[key])
         IN (IF key \in TwiceKeys({key}) THEN 2 * one ELSE one)
            + SumOver(keys \ {key}, sd, sd0, what)

\* 1 - not_transferred_weights_sum / total_weights, as <<numerator, denominator>>
MLMRatio(sd, sd0) ==
    LET total == SumOver(DOMAIN sd, sd, sd0, "total")
    IN <<total - SumOver(DOMAIN sd, sd, sd0, "equal"), total>>

NoReturn == <<0, 0>>

(* ---------------------------------------------------------------------- *)
(* The configurations of the models, target and source.                    *)
(* ---------------------------------------------------------------------- *)
HeteroLayer(H, heads, ff) ==
    [H |-> H, heads |-> heads, ff |-> ff, at |-> "", nh |-> 0, sim |-> ""]
HomoLayer(at, H, nh, sim, ff) ==
    [H |-> H, heads |-> <<>>, ff |-> ff, at |-> at, nh |-> nh, sim |-> sim]

SaSdp(d) == HeadDesc("sa", "sdp", 0, d)
SaWma(d) == HeadDesc("sa", "wma", 0, d)
LDft(d) == HeadDesc("l", "dft", 0, d)
LDct(d) == HeadDesc("l", "dct", 0, d)
Conv(k, d) == HeadDesc("c", "num", k, d)

\* Heterogeneous layers that stack into deeper models ...
HeteroBase ==
    { HeteroLayer(2, <<SaSdp(1), SaWma(1)>>, <<2>>),
      HeteroLayer(1, <<SaWma(2)>>, <<1>>) }

\* ... and those met in one-layer models only.
HeteroLayers ==
    HeteroBase \cup
    { HeteroLayer(2, <<SaWma(1), SaWma(1)>>, <<2>>),
      HeteroLayer(2, <<LDft(1), SaWma(1)>>, <<2, 1>>),
      HeteroLayer(2, <<Conv(4, 1), LDct(1)>>, <<2>>),
      HeteroLayer(2, <<Conv(2, 1), Conv(4, 1)>>, <<2>>),
      HeteroLayer(2, <<SaSdp(2), Conv(4, 2)>>, <<2>>),
      HeteroLayer(1, <<SaSdp(1)>>, <<1>>) }

HomoBase == HomoLayer("sa", 2, 1, "sdp", <<2>>)

HomoLayers ==
    { HomoBase,
      HomoLayer("l", 2, 1, "dft", <<2>>),
      HomoLayer("l", 1, 1, "dft", <<2>>),
      HomoLayer("sa", 2, 2, "sdp", <<2>>),
      HomoLayer("sa", 2, 1, "sdp", <<1>>) }

SeqsOver(S, n) == [1 .. n -> S]

HeteroStacks ==
    SeqsOver(HeteroLayers, 1) \cup UNION {SeqsOver(HeteroBase, n) : n \in 2 .. MaxLayers}

HomoTargets == UNION {SeqsOver(HomoLayers, n) : n \in 1 .. MaxLayers}
HomoSources == UNION {SeqsOver({HomoBase}, n) : n \in 1 .. MaxLayers}

Config(hetero, rel, layers) == [hetero |-> hetero, rel |-> rel, layers |-> layers]

\* <<target config, source config>>
ConfigPairs ==
    {<<Config(TRUE, rel, lt), Config(TRUE, rel, ls)>> :
        rel \in BOOLEAN, lt \in HeteroStacks, ls \in HeteroStacks}
    \cup
    {<<Config(FALSE, rel, lt), Config(FALSE, rel, ls)>> :
        rel \in BOOLEAN, lt \in HomoTargets, ls \in HomoSources}
    \cup
    {<<Config(TRUE, FALSE, <<hl>>), Config(FALSE, FALSE, <<HomoBase>>)>> : hl \in HeteroBase}
    \cup
    {<<Config(FALSE, FALSE, <<HomoBase>>), Config(TRUE, FALSE, <<hl>>)>> : hl \in HeteroBase}

Modes == {"OD", "RP"}
Seeds == {"R1", "R2"}

\* Only an RP transfer draws a projection.
SeedsOf(m) == IF m = "RP" THEN Seeds ELSE {"R1"}

(* ---------------------------------------------------------------------- *)
(* The state machine: a target and a source model, and calls of            *)
(* load_model_from_source on the target.                                   *)
(* ---------------------------------------------------------------------- *)
VARIABLES
    cfgT,    \* the target's config
    cfgS,    \* the source's config
    mode,    \* the target's transfer_mode
    tgt,     \* the target's own tensors
    src,     \* the source's tensors
    alias,   \* attributes of the target bound to Parameters of the source
    call,    \* the last call: which method, and its debug argument
    ret,     \* what the last call returned, NoReturn if it raised
    err,     \* the exception the last call raised, "" if none
    ncalls,  \* the number of calls made
    batch,   \* the batch size of the forward calls
    past,    \* the key/value cache the caller of forward holds
    fwd,     \* what the last forward call computed
    encoder, \* an encoder stack and what its last forward call returned
    attention,         \* an attention block's head bookkeeping
    attention_scores   \* the stacked per-head scores of one forward call

vars == <<cfgT, cfgS, mode, tgt, src, alias, call, ret, err, ncalls, batch, past, fwd,
         encoder, attention, attention_scores>>

\* past_key_value=None, and no forward call made.
NoCache == [k |-> <<>>, v |-> <<>>]
NoForward == [s |-> 0, context |-> <<>>]
\* No encoder stack, attention block or score tensor under study.
NoEncoder == [layers |-> <<>>]
NoAttention == [heads |-> 0]
NoScores == <<>>

Init ==
    /\ \E p \in ConfigPairs : cfgT = p[1] /\ cfgS = p[2]
    /\ mode \in Modes
    /\ tgt = BuildModel("T", cfgT)
    /\ src = BuildModel("S", cfgS)
    /\ alias = NoAlias
    /\ call = [op |-> "none", debug |-> FALSE]
    /\ ret = NoReturn
    /\ err = ""
    /\ ncalls = 0
    /\ batch = 1
    /\ past = NoCache
    /\ fwd = NoForward
    /\ encoder = NoEncoder
    /\ attention = NoAttention
    /\ attention_scores = NoScores

Entry == [tgt |-> tgt, src |-> src, alias |-> alias, err |-> "", count |-> 0]

\* target.bert.load_model_from_source(source.bert, debug)
CallBert(debug, seed) ==
    /\ ncalls < MaxCalls
    /\ seed \in SeedsOf(mode)
    /\ LET st == Run(Entry, BertStatements(cfgT, cfgS, mode, debug), 1, seed)
       IN /\ tgt' = st.tgt
          /\ src' = st.src
          /\ alias' = st.alias
          /\ err' = st.err
          /\ ret' = IF st.err # "" THEN NoReturn ELSE <<st.count, BertTotal(cfgT)>>
    /\ call' = [op |-> "bert", debug |-> debug]
    /\ ncalls' = ncalls + 1
    /\ UNCHANGED <<cfgT, cfgS, mode, batch, past, fwd, encoder, attention, attention_scores>>

\* target.load_model_from_source(source, debug)
CallMLM(debug, seed) ==
    /\ ncalls < MaxCalls
    /\ seed \in SeedsOf(mode)
    /\ LET st == Run(Entry, MLMStatements(cfgT, cfgS, mode, debug), 1, seed)
       IN /\ tgt' = st.tgt
          /\ src' = st.src
          /\ alias' = st.alias
          /\ err' = st.err
          /\ ret' = IF st.err # "" THEN NoReturn
                    ELSE MLMRatio(StateDict(st), StateDict(Entry))
    /\ call' = [op |-> "mlm", debug |-> debug]
    /\ ncalls' = ncalls + 1
    /\ UNCHANGED <<cfgT, cfgS, mode, batch, past, fwd, encoder, attention, attention_scores>>

Next ==
    \/ \E debug \in BOOLEAN, seed \in Seeds : CallBert(debug, seed)
    \/ \E debug \in BOOLEAN, seed \in Seeds : CallMLM(debug, seed)

Spec == Init /\ [][Next]_vars


(* ---------------------------------------------------------------------- *)
(* Properties.                                                             *)
(* ---------------------------------------------------------------------- *)
\* The target's tensors as its state_dict shows them, now and after a step.
Here == [tgt |-> tgt, src |-> src, alias |-> alias, err |-> err, count |-> 0]
After == [tgt |-> tgt', src |-> src', alias |-> alias', err |-> err', count |-> 0]

Returned == call.op # "none" /\ err = ""
RatioIsOne == ret # NoReturn /\ ret[1] = ret[2]

\* Every entry of every target parameter equals the source's.
TargetEqualsSource ==
    \A key \in DOMAIN tgt :
        /\ key \in DOMAIN src
        /\ TGet(Here, key) = src[key]

\* C1: if the source and the target are built from identical configs, a
\* transfer returns, leaves every target parameter equal to the source's
\* and returns a coverage ratio of exactly 1.0, whether the models are
\* heterogeneous or homogeneous.
C1_IdenticalConfigsLossless ==
    (call.op # "none" /\ cfgT = cfgS) =>
        (Returned /\ TargetEqualsSource /\ RatioIsOne)

(* ---- heads ------------------------------------------------------------ *)
\* The head of layer key[2] of a model of config cfg that owns the entry
\* ix of the parameter key, 0 if the entry belongs to no single head: the
\* rows of query/key/value and the columns of the attention output
\* projection are laid out head after head; W<n> is the n-th bilinear
\* head's, <conv layer><n> the n-th convolutional head's.
HeadOfEntry(cfg, key, ix) ==
    IF ~cfg.hetero \/ key[1] \notin {"self", "aout"} THEN 0
    ELSE IF key[1] = "self" /\ key[3] \in QKVNames
         THEN (ix[1] \div HeadSize(cfg, key[2])) + 1
    ELSE IF key[1] = "self" /\ key[3] = "W" THEN WmaOwner(cfg, key[2], key[4])
    ELSE IF key[1] = "self" /\ key[3] \in ConvNames THEN ConvOwner(cfg, key[2], key[4])
    ELSE IF key[1] = "aout" /\ key[3] = "dense.w"
         THEN (ix[2] \div HeadSize(cfg, key[2])) + 1
    ELSE 0

\* Head j of layer i exists in both models.
CommonHead(i, j) ==
    /\ i <= Min(NumLayers(cfgT), NumLayers(cfgS))
    /\ j >= 1
    /\ j <= Min(NumHeads(cfgT, i), NumHeads(cfgS, i))

TypesDiffer(i, j) == CommonHead(i, j) /\ Heads(cfgT, i)[j].t # Heads(cfgS, i)[j].t
TypesMatch(i, j) == CommonHead(i, j) /\ Heads(cfgT, i)[j].t = Heads(cfgS, i)[j].t

\* The entries of the target, and those a step changes.
Entries == UNION {{<<key, ix>> : ix \in IdxSet(tgt[key].sh)} : key \in DOMAIN tgt}
Changed(e) == TGet(After, e[1]).v[e[2]] # TGet(Here, e[1]).v[e[2]]

BothHetero == cfgT.hetero /\ cfgS.hetero

\* C2: in heterogeneous mode, a transfer that returns leaves every
\* parameter entry of a target head whose attention type differs from the
\* source head's at the same index (query/key/value rows, bilinear matrix,
\* convolution sub-layers, its columns of the attention output projection)
\* at the value it had before.
C2_MismatchedHeadUntouched ==
    [][(BothHetero /\ err' = "") =>
          \A e \in Entries :
              TypesDiffer(e[1][2], HeadOfEntry(cfgT, e[1], e[2])) => ~Changed(e)]_vars

(* ---- ordered (OD) transfer -------------------------------------------- *)
\* Some dimension of a layer both models have is smaller in the target.
TargetSmaller ==
    \E i \in 1 .. Min(NumLayers(cfgT), NumLayers(cfgS)) :
        \/ Hidden(cfgT, i) < Hidden(cfgS, i)
        \/ BothHetero /\ HeadSize(cfgT, i) < HeadSize(cfgS, i)
        \/ BothHetero /\ NumHeads(cfgT, i) < NumHeads(cfgS, i)
        \/ ~cfgT.hetero /\ ~cfgS.hetero /\ cfgT.layers[i].nh < cfgS.layers[i].nh
        \/ \E f \in 1 .. Min(Len(FF(cfgT, i)), Len(FF(cfgS, i))) :
               FF(cfgT, i)[f] < FF(cfgS, i)[f]

\* The entry lies inside the source's tensor of the same name.
InSource(e) == e[1] \in DOMAIN src /\ e[2] \in IdxSet(src[e[1]].sh)

\* C3: in OD mode, with a target dimension smaller than the source's, no
\* slice assignment of a transfer fails on its shapes, and every value the
\* transfer writes is the source's value at the same index.
C3_OrderedTransferShapeSafe ==
    [][(mode = "OD" /\ TargetSmaller) =>
          /\ err' # ShapeError
          /\ \A e \in Entries :
                 Changed(e) =>
                     InSource(e) /\ TGet(After, e[1]).v[e[2]] = src[e[1]].v[e[2]]]_vars

C5_OnlyLeadingBlockWritten ==
    [][err' = "" => \A e \in Entries : Changed(e) => InSource(e)]_vars

(* ---- homogeneous mode --------------------------------------------------- *)
BothHomo == ~cfgT.hetero /\ ~cfgS.hetero
CommonLayers == 1 .. Min(NumLayers(cfgT), NumLayers(cfgS))

\* k is the first layer at which the attention types differ.
FirstTypeMismatch(k) ==
    /\ k \in CommonLayers
    /\ cfgT.layers[k].at # cfgS.layers[k].at
    /\ \A i \in 1 .. k - 1 : cfgT.layers[i].at = cfgS.layers[i].at

\* The encoder parameters of the target from layer k on.
KeysFrom(k) == {key \in DOMAIN tgt : key[1] \in {"self", "aout", "ffn", "out"} /\ key[2] >= k}

\* A step leaves these parameters as they were / equal to the source's.
Untouched(keys) == \A key \in keys : tgt'[key] = tgt[key]
Transferred(keys) == \A key \in keys : key \in DOMAIN src /\ tgt'[key] = src[key]

\* The step is a call.
Called == ncalls' = ncalls + 1

\* The conditions under which the loop loads the blocks of layer i.
AttentionLoaded(i) == SameAttention(cfgT, cfgS, i)
IntermediateLoaded(i) == AttentionLoaded(i) /\ FF(cfgT, i) = FF(cfgS, i)
OutputLoaded(i) == IntermediateLoaded(i) /\ NextHiddenSame(cfgT, cfgS, i)

MismatchAt(i) ==
    \/ cfgT.layers[i].at # cfgS.layers[i].at
    \/ cfgT.layers[i].nh # cfgS.layers[i].nh
    \/ cfgT.layers[i].sim # cfgS.layers[i].sim

\* C7: in homogeneous mode, a mismatch at layer i (attention type, head
\* configuration or similarity) ends the transfer: no parameter of layer i
\* or of a later layer is changed.
C7_AnyMismatchAborts ==
    [][(BothHomo /\ Called) =>
          \A i \in CommonLayers : MismatchAt(i) => Untouched(KeysFrom(i))]_vars

(* ---- heterogeneous mode: heads ------------------------------------------ *)
\* The value is an initial value of the source.
FromSource(v) == v[1] = "S"

\* C8: in heterogeneous mode, what a transfer that returns writes into the
\* query/key/value rows, the bilinear matrix or the convolution sub-layers
\* of a target head comes from the source head of the same index, whenever
\* the attention types of either of the two heads match across the models.
C8_HeadsTransferredPairwise ==
    [][(BothHetero /\ err' = "") =>
          \A e \in Entries :
              (e[1][1] = "self" /\ Changed(e) /\ FromSource(TGet(After, e[1]).v[e[2]])) =>
                  LET v == TGet(After, e[1]).v[e[2]]
                      jt == HeadOfEntry(cfgT, e[1], e[2])
                      js == HeadOfEntry(cfgS, v[2], v[3])
                  IN (jt > 0 /\ js > 0 /\ (TypesMatch(e[1][2], jt) \/ TypesMatch(e[1][2], js)))
                         => jt = js]_vars

(* ---- errors --------------------------------------------------------------- *)
\* C9: a transfer between two models of the same heterogeneous-mode flag
\* (both with relative position embeddings, so that the distance embedding
\* the transfer reads exists) raises nothing, whatever their mismatches,
\* and returns a coverage ratio.
C9_MismatchNeverRaises ==
    (call.op # "none" /\ cfgT.hetero = cfgS.hetero /\ cfgT.rel /\ cfgS.rel) =>
        (err = "" /\ ret # NoReturn)

\* Heads j of layer i are a matching pair of convolutional heads whose
\* kernel sizes or head sizes differ.
NeedsReconciliation(i, j) ==
    /\ TypesMatch(i, j)
    /\ IsNumeric(Heads(cfgT, i)[j])
    /\ \/ HeadSize(cfgT, i) # HeadSize(cfgS, i)
       \/ Heads(cfgT, i)[j].k # Heads(cfgS, i)[j].k

\* C10: in RP mode, a transfer that meets a matching pair of convolutional
\* heads in need of reconciliation raises an error.
C10_RPConvReconciliationRaises ==
    (/\ call.op # "none"
     /\ mode = "RP"
     /\ BothHetero
     /\ \E i \in CommonLayers : \E j \in 1 .. NumHeads(cfgT, i) : NeedsReconciliation(i, j))
        => err # ""

(* ---- the returned ratio --------------------------------------------------- *)
\* The state elements the last call reports on: those of the embeddings
\* and the encoder for BertModelModular, all for BertForMaskedLMModular.
ReportedKeys ==
    IF call.op = "bert" THEN DOMAIN tgt \ ClsKeys ELSE DOMAIN tgt

\* How many times an element of the parameter is counted: once, or as often
\* as state_dict() lists the parameter.
Weight(key, bykey) == IF bykey /\ key \in TwiceKeys({key}) THEN 2 ELSE 1

RECURSIVE CountElements(_, _, _)
CountElements(keys, differing, bykey) ==
    IF keys = {} THEN 0
    ELSE LET key == CHOOSE x \in keys : TRUE
             t == TGet(Here, key)
             t0 == BuildModel("T", cfgT)[key]
             n == IF differing
                  THEN Cardinality({ix \in IdxSet(t.sh) : t.v[ix] # t0.v[ix]})
                  ELSE NumElements(t)
         IN n * Weight(key, bykey) + CountElements(keys \ {key}, differing, bykey)

\* ret is the fraction of reported elements that differ from their initial
\* value, the elements counted either way.
RatioIsDifferingFraction ==
    \E bykey \in BOOLEAN :
        ret[1] * CountElements(ReportedKeys, FALSE, bykey)
            = ret[2] * CountElements(ReportedKeys, TRUE, bykey)

\* C11: the value a call of load_model_from_source returns, the first call
\* or a later one, is the number of target state elements that differ from
\* their value at initialisation, divided by the number of target state
\* elements.
C11_RatioIsFractionTransferred ==
    Returned => RatioIsDifferingFraction

(* ---------------------------------------------------------------------- *)
(* Construction.  BertModelModular(config, transfer_mode) and              *)
(* BertForMaskedLMModular(config, transfer_mode): what is allocated, in    *)
(* the constructors' order, and the exception that ends the construction.  *)
(* A config here also says whether it has the attribute embedding_size     *)
(* (es).                                                                   *)
(* ---------------------------------------------------------------------- *)
\* A constructor check gone wrong: the heterogeneous block only wants a head.
NewAttentionAnySizes(cfg, i) ==
    IF cfg.hetero
    THEN IF Len(Heads(cfg, i)) = 0 THEN "AssertionError" ELSE ""
    ELSE IF Hidden(cfg, i) % cfg.layers[i].nh # 0 /\ ~cfg.es
         THEN "ValueError" ELSE ""

\* A constructor check gone wrong: no block checks divisibility.
NewAttentionNoDivisibility(cfg, i) ==
    IF cfg.hetero
    THEN IF Cardinality({Heads(cfg, i)[j].d : j \in 1 .. Len(Heads(cfg, i))}) # 1
         THEN "AssertionError" ELSE ""
    ELSE ""

\* The check at the head of the self-attention constructor of layer i: ""
\* if it passes, else the exception.  The heterogeneous block asserts that
\* its heads declare one size (of no head, the set of sizes is empty); its
\* divisibility check is commented out.  The homogeneous blocks raise
\* ValueError if the hidden size is no multiple of the head count and the
\* config has no embedding_size.
NewAttention(cfg, i) ==
    IF cfg.hetero
    THEN IF Cardinality({Heads(cfg, i)[j].d : j \in 1 .. Len(Heads(cfg, i))}) # 1
         THEN "AssertionError" ELSE ""
    ELSE IF Hidden(cfg, i) % cfg.layers[i].nh # 0 /\ ~cfg.es
         THEN "ValueError" ELSE ""

\* BertEncoderModular.__init__: the layers from i on, after `keys` have
\* been allocated.
RECURSIVE NewLayers(_, _, _)
NewLayers(cfg, i, keys) ==
    IF i > NumLayers(cfg) THEN [keys |-> keys, err |-> ""]
    ELSE IF NewAttention(cfg, i) # "" THEN [keys |-> keys, err |-> NewAttention(cfg, i)]
    ELSE NewLayers(cfg, i + 1, keys \cup LayerKeys(cfg, i))

\* BertModelModular.__init__: embeddings, encoder, the pooler if asked
\* for, then the assertion on transfer_mode.
NewBertModel(cfg, m, pool) ==
    LET enc == NewLayers(cfg, 1, EmbKeys)
        all == enc.keys \cup (IF pool THEN PoolerKeys ELSE {})
    IN IF enc.err # "" THEN enc
       ELSE IF m \notin Modes THEN [keys |-> all, err |-> "AssertionError"]
       ELSE [keys |-> all, err |-> ""]

\* BertForMaskedLMModular.__init__: the assertion on transfer_mode, then
\* the BertModelModular, then the head.
NewMLMModel(cfg, m) ==
    IF m \notin Modes THEN [keys |-> {}, err |-> "AssertionError"]
    ELSE LET bert == NewBertModel(cfg, m, FALSE)
         IN IF bert.err # "" THEN bert
            ELSE [keys |-> bert.keys \cup ClsKeys, err |-> ""]

\* The tensors of the allocated parameters.
Allocated(cfg, keys) ==
    [key \in keys |->
        NewTensor(IF key[3] = "position_ids" THEN "C" ELSE "T", key, ShapeOf(cfg, key))]

\* Layers a constructor may be given, among them ones whose heads disagree
\* on their size, one with no head, and ones whose hidden size is no
\* multiple of the number of heads.
NewHeteroLayers ==
    HeteroLayers \cup
    { HeteroLayer(2, <<SaSdp(1), SaWma(2)>>, <<2>>),
      HeteroLayer(2, <<Conv(4, 2), LDft(1)>>, <<2>>),
      HeteroLayer(2, <<>>, <<2>>),
      HeteroLayer(1, <<SaSdp(1), SaWma(1)>>, <<1>>),
      HeteroLayer(2, <<SaSdp(1), LDft(1), Conv(2, 1)>>, <<2>>) }

NewHomoLayers ==
    HomoLayers \cup
    { HomoLayer("sa", 3, 2, "sdp", <<2>>),
      HomoLayer("l", 1, 2, "dft", <<2>>) }

NewConfig(hetero, rel, layers, es) ==
    [hetero |-> hetero, rel |-> rel, layers |-> layers, es |-> es]

NewConfigs ==
    {NewConfig(TRUE, rel, ls, es) : rel \in BOOLEAN, es \in BOOLEAN,
        ls \in UNION {SeqsOver(NewHeteroLayers, n) : n \in 1 .. MaxLayers}}
    \cup
    {NewConfig(FALSE, rel, ls, es) : rel \in BOOLEAN, es \in BOOLEAN,
        ls \in UNION {SeqsOver(NewHomoLayers, n) : n \in 1 .. MaxLayers}}

\* The values of transfer_mode a caller may pass.
NewModes == Modes \cup {"XX"}

NoTensors == [key \in {} |-> 0]

\* Before the construction: a config, a transfer_mode, and nothing
\* allocated.
InitNew ==
    /\ cfgT \in NewConfigs
    /\ cfgS = cfgT
    /\ mode \in NewModes
    /\ tgt = NoTensors
    /\ src = NoTensors
    /\ alias = NoAlias
    /\ call = [op |-> "none", debug |-> FALSE]
    /\ ret = NoReturn
    /\ err = ""
    /\ ncalls = 0
    /\ batch = 1
    /\ past = NoCache
    /\ fwd = NoForward
    /\ encoder = NoEncoder
    /\ attention = NoAttention
    /\ attention_scores = NoScores

\* BertModelModular(config, add_pooling_layer=pool, transfer_mode=mode)
ConstructBert(pool) ==
    /\ ncalls = 0
    /\ LET new == NewBertModel(cfgT, mode, pool)
       IN /\ tgt' = Allocated(cfgT, new.keys)
          /\ err' = new.err
    /\ call' = [op |-> "new_bert", debug |-> FALSE]
    /\ ncalls' = 1
    /\ UNCHANGED <<cfgT, cfgS, mode, src, alias, ret, batch, past, fwd, encoder, attention, attention_scores>>

\* BertForMaskedLMModular(config, transfer_mode=mode)
ConstructMLM ==
    /\ ncalls = 0
    /\ LET new == NewMLMModel(cfgT, mode)
       IN /\ tgt' = Allocated(cfgT, new.keys)
          /\ err' = new.err
    /\ call' = [op |-> "new_mlm", debug |-> FALSE]
    /\ ncalls' = 1
    /\ UNCHANGED <<cfgT, cfgS, mode, src, alias, ret, batch, past, fwd, encoder, attention, attention_scores>>

NextNew ==
    \/ \E pool \in BOOLEAN : ConstructBert(pool)
    \/ ConstructMLM

SpecNew == InitNew /\ [][NextNew]_vars

Constructed == call.op \in {"new_bert", "new_mlm"}

\* The heads of layer i of the heterogeneous config declare one size, and
\* all_head_size is a positive multiple of it.
HeadsAgree(cfg, i) ==
    /\ Len(Heads(cfg, i)) >= 1
    /\ \A j, k \in 1 .. Len(Heads(cfg, i)) : Heads(cfg, i)[j].d = Heads(cfg, i)[k].d
    /\ \E m \in 1 .. AllHeadSize(cfg, i) : AllHeadSize(cfg, i) = m * Heads(cfg, i)[1].d

\* C12: building a heterogeneous model (with a valid transfer_mode)
\* succeeds if and only if, in every layer, all head descriptors declare
\* the same head size and all_head_size is a positive multiple of it;
\* descriptors that disagree, or a layer with no head, make it fail.
C12_HeteroBuildsIffHeadsAgree ==
    (Constructed /\ cfgT.hetero /\ mode \in Modes) =>
        (err = "" <=> \A i \in 1 .. NumLayers(cfgT) : HeadsAgree(cfgT, i))

C12_Witness ==
    /\ Constructed /\ cfgT.hetero /\ mode \in Modes
    /\ err = "AssertionError"
    /\ NumLayers(cfgT) = 2
    /\ HeadsAgree(cfgT, 1)
    /\ Len(Heads(cfgT, 2)) = 2 /\ ~HeadsAgree(cfgT, 2)


\* The hidden size of layer i is no multiple of its number of heads.
Indivisible(cfg, i) ==
    NumHeads(cfg, i) > 0 /\ Hidden(cfg, i) % NumHeads(cfg, i) # 0

\* C13: constructing the attention block of layer i fails whenever the
\* hidden size of the layer is not divisible by its head count and the
\* config has no embedding_size override, for every kind of attention
\* block, the heterogeneous one included.
C13_IndivisibleHiddenFails ==
    (Constructed /\ ~cfgT.es /\ \E i \in 1 .. NumLayers(cfgT) : Indivisible(cfgT, i))
        => err # ""

\* C13, amended: the homogeneous attention blocks fail so, with a
\* ValueError; the heterogeneous block makes no such check, and a
\* heterogeneous model whose heads agree on their size is built whatever
\* the hidden sizes and head counts.
C13_IndivisibleHiddenFailsAmended ==
    Constructed =>
        /\ (~cfgT.hetero /\ ~cfgT.es /\ \E i \in 1 .. NumLayers(cfgT) : Indivisible(cfgT, i))
              => (err # "" /\ (mode \in Modes => err = "ValueError"))
        /\ (cfgT.hetero /\ mode \in Modes /\ \A i \in 1 .. NumLayers(cfgT) : HeadsAgree(cfgT, i))
              => err = ""

C13_Witness ==
    /\ Constructed /\ cfgT.hetero /\ ~cfgT.es /\ mode \in Modes
    /\ \E i \in 1 .. NumLayers(cfgT) : Indivisible(cfgT, i)
    /\ err = ""
    /\ DOMAIN tgt # {}

\* C14: constructing a model with a transfer mode other than 'OD' and 'RP'
\* fails, and it fails before any parameter tensor is allocated.
C14_InvalidModeFailsBeforeAllocation ==
    (Constructed /\ mode \notin Modes) => (err # "" /\ DOMAIN tgt = {})

(* ---------------------------------------------------------------------- *)
(* Claims about one transfer, and about two.                               *)
(* ---------------------------------------------------------------------- *)
\* The statements of the call that leads to the next state.
Program ==
    IF call'.op = "bert" THEN BertStatements(cfgT, cfgS, mode, call'.debug)
    ELSE MLMStatements(cfgT, cfgS, mode, call'.debug)

\* Every projected block assigned by the statements from k on, run from
\* st, has the shape of the slice it is assigned to.
RECURSIVE ProjectionsFit(_, _, _)
ProjectionsFit(st, prog, k) ==
    IF k > Len(prog) \/ st.err # "" THEN TRUE
    ELSE /\ (prog[k].op = "rp" /\ CanProject(st, prog[k]))
               => RightHandSide(st, prog[k], "R1").sh
                    = Slice(TGet(st, prog[k].key), prog[k].rng).sh
         /\ ProjectionsFit(RunStatement(st, prog[k], "R1"), prog, k + 1)

\* The shape behind every parameter of the target is the same before and
\* after the step.
ShapesKept ==
    \A key \in DOMAIN tgt :
        (IF key \in DOMAIN alias' THEN src'[alias'[key]] ELSE tgt'[key]).sh
            = (IF key \in DOMAIN alias THEN src[alias[key]] ELSE tgt[key]).sh

\* C15: in RP mode every target tensor has after the transfer the shape it
\* had before, and every projected block assigned into a target slice has
\* exactly the shape of that slice.
C15_RPKeepsShapes ==
    [][(Called /\ mode = "RP") => (ShapesKept /\ ProjectionsFit(Entry, Program, 1))]_vars

\* The parameter a statement writes (of a load_state_dict, one of them:
\* the model loads one block at a time).
StmtKey(s) == IF s.op = "load" THEN CHOOSE key \in s.keys : TRUE ELSE s.key

\* The place of a statement's parameter in the order of components:
\* <<layer, stage>>, the embeddings before and the head after every layer.
Stage(s) ==
    LET key == StmtKey(s)
    IN CASE key[1] = "emb" -> <<0, 0>>
         [] key[1] = "self" /\ key[3] = "dist" -> <<key[2], 1>>
         [] key[1] = "self" /\ key[3] \in QKVNames -> <<key[2], 2>>
         [] key[1] = "self" -> <<key[2], 3>>
         [] key[1] = "aout" -> <<key[2], 4>>
         [] key[1] = "ffn" -> <<key[2], 5>>
         [] key[1] = "out" /\ key[3] \in {"proj.w", "proj.b"} -> <<key[2], 7>>
         [] key[1] = "out" -> <<key[2], 6>>
         [] OTHER -> <<MaxLayers + 1, 0>>

NotAfter(p, q) == p[1] < q[1] \/ (p[1] = q[1] /\ p[2] <= q[2])

\* The number of statements of prog, from k on and run from st, that
\* complete.
RECURSIVE Completed(_, _, _)
Completed(st, prog, k) ==
    IF k > Len(prog) THEN Len(prog)
    ELSE IF RunStatement(st, prog[k], "R1").err # "" THEN k - 1
    ELSE Completed(RunStatement(st, prog[k], "R1"), prog, k + 1)

\* The statements that completed wrote their components in the order of
\* the stages.
WritesInOrder ==
    \A a, b \in 1 .. Completed(Entry, Program, 1) :
        a < b => NotAfter(Stage(Program[a]), Stage(Program[b]))

\* A width-matching projection that target and source both have is written.
ProjWritten ==
    \A i \in CommonLayers :
        (ProjRequired(cfgT, i) /\ ProjRequired(cfgS, i) /\ err' = "")
            => \E k \in 1 .. Len(Program) : Stage(Program[k]) = <<i, 7>>

\* C16: within one transfer the components are written in this order:
\* embeddings first, then for each layer in increasing index the distance
\* embedding, the per-head query/key/value slices, the per-head
\* variant-specific parameters, the attention output projection and
\* normalization, the feed-forward stages, the output projection and
\* normalization, and last the width-matching projection when the layer
\* has one.
C16_WritesInStageOrder ==
    [][(Called /\ BothHetero) => (WritesInOrder /\ ProjWritten)]_vars

\* What the call that leads to the next state gives when its projections
\* draw `seed`: the state it ends in, and what it returns.
Outcome(seed) == Run(Entry, Program, 1, seed)

RetOf(st) ==
    IF st.err # "" THEN NoReturn
    ELSE IF call'.op = "bert" THEN <<st.count, BertTotal(cfgT)>>
    ELSE MLMRatio(StateDict(st), StateDict(Entry))

SameOutcome(st) ==
    /\ st.tgt = tgt' /\ st.src = src' /\ st.alias = alias' /\ st.err = err'
    /\ RetOf(st) = ret'

Projected(v) == v[1] \in Seeds

\* st and the next state differ at most in entries that both took from a
\* random projection.
SameButProjections(st) ==
    /\ st.alias = alias' /\ st.err = err' /\ st.src = src'
    /\ \A key \in DOMAIN tgt : \A ix \in IdxSet(tgt[key].sh) :
          \/ st.tgt[key].v[ix] = tgt'[key].v[ix]
          \/ Projected(st.tgt[key].v[ix]) /\ Projected(tgt'[key].v[ix])
    /\ call'.op = "bert" => RetOf(st) = ret'

Repeated == Called /\ call' = call /\ err = ""

\* C18: in OD mode the transfer is idempotent on the target's parameters:
\* when the transfer completes, running load_model_from_source a second
\* time from the same source leaves every target parameter equal to its
\* value after the first run.
C18_ODIdempotent ==
    [][(Repeated /\ mode = "OD") => (err' = "" /\ StateDict(After) = StateDict(Here))]_vars

\* Two OD transfers have completed, the first of which changed the target.
C18_Witness ==
    /\ mode = "OD" /\ ncalls = 2 /\ err = ""
    /\ cfgT # cfgS
    /\ \E key \in DOMAIN tgt : StateDict(Here)[key] # BuildModel("T", cfgT)[key]

(* ---------------------------------------------------------------------- *)
(* The forward pass of one self-attention block, BertSelfAttentionModular  *)
(* or BertHeteroAttentionModular, called without encoder_hidden_states     *)
(* and without masks.  Tensors are followed by their length along the      *)
(* sequence axis and by the terms their positions hold; 0 stands for a     *)
(* length torch refuses (the call raises a RuntimeError).                  *)
(* ---------------------------------------------------------------------- *)
MaxInput == 2
MaxForwards == 3
MaxBatch == 2

\* The size of a broadcasting operand pair along one axis, 0 if they do
\* not broadcast.
Broadcast(m, n) ==
    IF m = 0 \/ n = 0 THEN 0
    ELSE IF m = n \/ n = 1 THEN m
    ELSE IF m = 1 THEN n
    ELSE 0

\* torch.stack of tensors of these lengths.
Stacked(lens) == IF Cardinality(lens) = 1 /\ 0 \notin lens THEN CHOOSE n \in lens : TRUE ELSE 0

\* The heads of the block, as descriptors: the homogeneous block has
\* attention_heads_list[i] self-attention heads of similarity sim.
BlockHeads(cfg) ==
    IF cfg.hetero THEN Heads(cfg, 1)
    ELSE [j \in 1 .. cfg.layers[1].nh |->
             HeadDesc("sa", cfg.layers[1].sim, 0, HeadSize(cfg, 1))]

\* The last axis of attention_scores for a cache of L and an input of s
\* positions.  The heterogeneous block stacks one score matrix per head:
\* query times key for a self-attention head, zeros of the query's length
\* for a linear or convolutional head.
ScoresLen(cfg, L, s) ==
    IF cfg.hetero
    THEN Stacked({IF BlockHeads(cfg)[j].t = "sa" THEN L + s ELSE s :
                     j \in 1 .. Len(BlockHeads(cfg))})
    ELSE L + s

\* ... after the relative position scores, which have the input's length,
\* are added.
RelativeLen(cfg, L, s) ==
    IF cfg.rel THEN Broadcast(ScoresLen(cfg, L, s), s) ELSE ScoresLen(cfg, L, s)

\* torch.matmul(attention_probs, value_layer): the length of the context,
\* 0 if the probabilities do not have one column per cached or new value.
AttnLen(cfg, L, s) == IF RelativeLen(cfg, L, s) = L + s THEN s ELSE 0

\* The convolutional head with kernel size k: the lengths along the
\* sequence axis of the key convolution (padding k // 2), of its product
\* with the query, of the unfolded values (padding (k - 1) // 2), of their
\* product with the kernel (both reshaped to batch * length rows) and of
\* the sum with the attention context.
ConvLen(k, b, L, s) ==
    LET keyconv == L + s + 2 * (k \div 2) - k + 1
        kernel == Broadcast(keyconv, s)
        unfold == Max(0, L + s + 2 * ((k - 1) \div 2) - k + 1)
        rows == Broadcast(b * unfold, b * kernel)
    IN IF rows = 0 THEN 0 ELSE Broadcast(s, rows \div b)

\* The length of the context of head slot j.
HeadContextLen(cfg, j, b, L, s) ==
    LET h == BlockHeads(cfg)[j]
    IN CASE h.t = "sa" -> s
         [] h.t = "l" -> Broadcast(s, L + s)
         [] OTHER -> ConvLen(h.k, b, L, s)

\* The length of the returned context, 0 if the call raises.
ContextLen(cfg, b, L, s) ==
    IF AttnLen(cfg, L, s) = 0 THEN 0
    ELSE IF ~cfg.hetero THEN s
    ELSE Stacked({HeadContextLen(cfg, j, b, L, s) : j \in 1 .. Len(BlockHeads(cfg))})

\* self.key(hidden_states), self.value(hidden_states): one projection per
\* input position; position p of the n-th call is <<n, p>>.
Projections(f, n, s) == [p \in 1 .. s |-> <<f, <<n, p>>>>]

\* Cat gone wrong: the new projections are put before the cache.
CatBefore(cached, new) == new \o cached

\* torch.cat([past_key_value[0], key_layer], dim=2), along the sequence
\* axis.
Cat(cached, new) == cached \o new

\* The number of convolutional heads before slot j: conv_count.
ConvCount(cfg, j) == Cardinality({m \in 1 .. j - 1 : BlockHeads(cfg)[m].t = "c"})

\* attention_probs of head j applied to value_layer of head j.
Attended(j) == <<"probs.values", j>>

\* What the block puts into the slice of head slot j of the context.
HeadContext(cfg, j) ==
    LET h == BlockHeads(cfg)[j]
    IN IF ~cfg.hetero THEN Attended(j)
       ELSE CASE h.t = "sa" -> <<"zeros">>
              [] h.t = "l" -> <<"add", Attended(j), <<h.s, j>>>>
              [] OTHER -> <<"add", Attended(j), <<"conv", ConvCount(cfg, j), j>>>>

\* Blocks to call: one-layer configs, with config.is_decoder (dec).
ForwardLayers ==
    HeteroLayers \cup
    { HeteroLayer(2, <<Conv(3, 1), LDct(1)>>, <<2>>),
      HeteroLayer(2, <<SaSdp(1), Conv(3, 1), Conv(5, 1)>>, <<2>>),
      HeteroLayer(1, <<LDft(1)>>, <<1>>) }

ForwardConfigs ==
    {[hetero |-> TRUE, rel |-> rel, layers |-> <<hl>>, dec |-> dec] :
        rel \in BOOLEAN, dec \in BOOLEAN, hl \in ForwardLayers}
    \cup
    {[hetero |-> FALSE, rel |-> rel, layers |-> <<hl>>, dec |-> dec] :
        rel \in BOOLEAN, dec \in BOOLEAN,
        hl \in {HomoBase, HomoLayer("sa", 2, 2, "wma", <<2>>)}}

InitForward ==
    /\ cfgT \in ForwardConfigs
    /\ cfgS = cfgT
    /\ mode = "OD"
    /\ tgt = NoTensors
    /\ src = NoTensors
    /\ alias = NoAlias
    /\ call = [op |-> "none", debug |-> FALSE]
    /\ ret = NoReturn
    /\ err = ""
    /\ ncalls = 0
    /\ batch \in 1 .. MaxBatch
    /\ past = NoCache
    /\ fwd = NoForward
    /\ encoder = NoEncoder
    /\ attention = NoAttention
    /\ attention_scores = NoScores

\* block(hidden_states, past_key_value=past) on s new positions; the
\* caller keeps the cache the call returns.
Forward(s) ==
    /\ ncalls < MaxForwards
    /\ LET L == Len(past.k)
           key_layer == Cat(past.k, Projections("key", ncalls + 1, s))
           value_layer == Cat(past.v, Projections("value", ncalls + 1, s))
       IN IF ContextLen(cfgT, batch, L, s) = 0
          THEN /\ err' = ShapeError
               /\ UNCHANGED <<past, fwd>>
          ELSE /\ err' = ""
               /\ past' = IF cfgT.dec THEN [k |-> key_layer, v |-> value_layer] ELSE NoCache
               /\ fwd' = [s |-> s,
                          context |-> [j \in 1 .. Len(BlockHeads(cfgT)) |-> HeadContext(cfgT, j)]]
    /\ call' = [op |-> "forward", debug |-> FALSE]
    /\ ncalls' = ncalls + 1
    /\ UNCHANGED <<cfgT, cfgS, mode, tgt, src, alias, ret, batch, encoder, attention, attention_scores>>

NextForward == \E s \in 1 .. MaxInput : Forward(s)

SpecForward == InitForward /\ [][NextForward]_vars

\* cached is the head of grown, in the same order.
IsPrefix(cached, grown) ==
    Len(cached) <= Len(grown) /\ SubSeq(grown, 1, Len(cached)) = cached

\* The positions of grown after the first L.
Appended(grown, L) == SubSeq(grown, L + 1, Len(grown))

\* C19: in decoder mode, a self-attention call that receives a cache of L
\* key/value positions and an input of s positions returns a cache of L+s
\* positions whose first L positions are the received cache in the same
\* order and whose last s positions are the new projections; over any
\* sequence of calls the cache only grows by appending and earlier
\* entries are never reordered or changed.
C19_CacheGrowsByAppending ==
    [][/\ IsPrefix(past.k, past'.k) /\ IsPrefix(past.v, past'.v)
       /\ (Called /\ cfgT.dec /\ err' = "") =>
             /\ Len(past'.k) = Len(past.k) + fwd'.s
             /\ Len(past'.v) = Len(past.v) + fwd'.s
             /\ Appended(past'.k, Len(past.k)) = Projections("key", ncalls', fwd'.s)
             /\ Appended(past'.v, Len(past.v)) = Projections("value", ncalls', fwd'.s)]_vars

\* A decoder block has returned a cache grown over three calls.
C19_Witness ==
    /\ cfgT.dec /\ cfgT.hetero /\ call.op = "forward" /\ err = ""
    /\ ncalls = 3 /\ fwd.s = 2
    /\ Len(past.k) >= 4

\* The context of the variant configured for head slot j: the attention
\* probabilities applied to the values for a self-attention head, with
\* the Fourier or cosine transform of the values added for a linear head
\* and the span-based convolution of the head's own sub-layers added for
\* a convolutional head.
VariantContext(cfg, j) ==
    LET h == BlockHeads(cfg)[j]
    IN CASE h.t = "sa" -> Attended(j)
         [] h.t = "l" -> <<"add", Attended(j), <<h.s, j>>>>
         [] OTHER -> <<"add", Attended(j), <<"conv", ConvCount(cfg, j), j>>>>

\* C20: in the heterogeneous attention block, the slice of the
\* concatenated context that belongs to head slot j is the context
\* computed by the variant configured for slot j, for every head type; for
\* a self-attention head it is that head's attention probabilities
\* applied to that head's values.
C20_SlotHoldsVariantContext ==
    (cfgT.hetero /\ fwd # NoForward) =>
        \A j \in 1 .. Len(fwd.context) : fwd.context[j] = VariantContext(cfgT, j)

\* The last axes of the per-head score matrices for a cache of L and an
\* input of s positions.
HeadScoreLens(cfg, L, s) ==
    {IF BlockHeads(cfg)[j].t = "sa" THEN L + s ELSE s : j \in 1 .. Len(BlockHeads(cfg))}

\* C21: in the heterogeneous attention block, for every mix of head types
\* and every accepted input (a non-empty key/value cache included), every
\* per-head score matrix, real or all-zero placeholder, has the same
\* shape, so the per-head scores can be stacked into one tensor.
C21_HeadScoresStack ==
    cfgT.hetero =>
        \A s \in 1 .. MaxInput :
            /\ Cardinality(HeadScoreLens(cfgT, Len(past.k), s)) = 1
            /\ ScoresLen(cfgT, Len(past.k), s) # 0


(* ---------------------------------------------------------------------- *)
(* The encoder stack's forward: which layer class each layer is, what the *)
(* stack hands to each layer, and what it collects from what comes back.  *)
(* Python values are written as strings: "None", "True", "False", and     *)
(* "past" for one layer's (key, value) tuple.  Tensors are named by what  *)
(* they are and the layer that made them.                                 *)
(* ---------------------------------------------------------------------- *)
MaxStack == 3

\* bool(x) of Python: None and False are falsy, a non-empty tuple is not.
Truthy(x) == x \in {"True", "past"}

Flag(b) == IF b THEN "True" ELSE "False"

Item(what, i) == [what |-> what, layer |-> i]

\* BertEncoderModular.__init__: the class of layer i.
LayerClass(cfg, i) ==
    IF cfg.hetero THEN "BertLayerModular"
    ELSE IF cfg.attention_type[i] = "c" THEN "ConvBertLayerModular"
    ELSE "BertLayerModular"

\* The forward of the self-attention modules a BertLayerModular wraps:
\* the context, the probabilities if asked for, the cache if a decoder.
SelfOutputs(cfg, i, output_attentions) ==
    <<Item("context", i)>>
    \o (IF Truthy(output_attentions) THEN <<Item("probs", i)>> ELSE <<>>)
    \o (IF cfg.dec THEN <<Item("present", i)>> ELSE <<>>)

\* ConvBertSelfAttentionModular.forward: no cache is returned.
ConvSelfOutputs(i, output_attentions) ==
    <<Item("context", i)>>
    \o (IF Truthy(output_attentions) THEN <<Item("probs", i)>> ELSE <<>>)

\* BertLayerModular.forward(..., past_key_value, output_attentions)
BertLayerForward(cfg, i, past_key_value, output_attentions) ==
    LET self_attention_outputs == SelfOutputs(cfg, i, output_attentions)
        n == Len(self_attention_outputs)
        outputs == IF cfg.dec THEN SubSeq(self_attention_outputs, 2, n - 1)
                   ELSE SubSeq(self_attention_outputs, 2, n)
    IN [received |-> [output_attentions |-> output_attentions,
                      past_key_value |-> past_key_value],
        outputs |-> <<Item("hidden", i)>> \o outputs
                    \o (IF cfg.dec THEN <<self_attention_outputs[n]>> ELSE <<>>)]

\* ConvBertLayerModular.forward(..., output_attentions, past_key_value)
ConvBertLayerForward(cfg, i, output_attentions, past_key_value) ==
    LET self_attention_outputs == ConvSelfOutputs(i, output_attentions)
    IN [received |-> [output_attentions |-> output_attentions,
                      past_key_value |-> past_key_value],
        outputs |-> <<Item("hidden", i)>> \o Tail(self_attention_outputs)]

\* layer_module(hidden_states, attention_mask, layer_head_mask,
\* encoder_hidden_states, encoder_attention_mask, sixth, seventh): the two
\* last positional arguments land on the parameters the class declares at
\* these positions.
LayerForward(cfg, i, sixth, seventh) ==
    IF LayerClass(cfg, i) = "ConvBertLayerModular"
    THEN ConvBertLayerForward(cfg, i, sixth, seventh)
    ELSE BertLayerForward(cfg, i, sixth, seventh)

NoOutput == [err |-> "", attentions |-> "None", cache |-> "None", received |-> <<>>]

\* The loop of BertEncoderModular.forward from layer i on; out is what
\* has been collected so far.
RECURSIVE EncoderLoop(_, _, _, _, _, _)
EncoderLoop(cfg, i, past_key_values, use_cache, output_attentions, out) ==
    IF i > Len(cfg.attention_type) THEN out
    ELSE LET past_key_value == IF past_key_values THEN "past" ELSE "None"
             layer == LayerForward(cfg, i, past_key_value, Flag(output_attentions))
             layer_outputs == layer.outputs
             got == Append(out.received, layer.received)
             cache == IF use_cache
                      THEN Append(out.cache, layer_outputs[Len(layer_outputs)])
                      ELSE out.cache
         IN IF output_attentions /\ Len(layer_outputs) < 2
            THEN [out EXCEPT !.err = "IndexError", !.received = got,
                             !.attentions = "None", !.cache = "None"]
            ELSE EncoderLoop(cfg, i + 1, past_key_values, use_cache, output_attentions,
                     [out EXCEPT !.received = got,
                                 !.cache = cache,
                                 !.attentions = IF output_attentions
                                                THEN Append(@, layer_outputs[2])
                                                ELSE @])

\* encoder(hidden_states, past_key_values=..., use_cache=...,
\*         output_attentions=...)
EncoderForward(cfg, past_key_values, use_cache, output_attentions) ==
    EncoderLoop(cfg, 1, past_key_values, use_cache, output_attentions,
        [NoOutput EXCEPT !.attentions = IF output_attentions THEN <<>> ELSE "None",
                         !.cache = IF use_cache THEN <<>> ELSE "None"])

\* The stacks: homogeneous ones of every mix of layer kinds, and
\* heterogeneous ones, each as an encoder or a decoder.
EncoderConfigs ==
    {[hetero |-> FALSE, attention_type |-> kinds, dec |-> dec] :
        kinds \in SeqsOver({"sa", "l", "c"}, MaxStack), dec \in BOOLEAN}
    \cup
    {[hetero |-> TRUE, attention_type |-> [i \in 1 .. n |-> "sa"], dec |-> dec] :
        n \in 1 .. MaxStack, dec \in BOOLEAN}

InitEncoder ==
    /\ cfgT \in EncoderConfigs
    /\ cfgS = cfgT
    /\ mode = "OD"
    /\ tgt = NoTensors
    /\ src = NoTensors
    /\ alias = NoAlias
    /\ call = [op |-> "none", debug |-> FALSE]
    /\ ret = NoReturn
    /\ err = ""
    /\ ncalls = 0
    /\ batch = 1
    /\ past = NoCache
    /\ fwd = NoForward
    /\ encoder = NoEncoder
    /\ attention = NoAttention
    /\ attention_scores = NoScores

\* One call of the stack's forward.
CallEncoder(past_key_values, use_cache, output_attentions) ==
    /\ ncalls < MaxCalls
    /\ LET out == EncoderForward(cfgT, past_key_values, use_cache, output_attentions)
       IN /\ encoder' = [layers |-> cfgT.attention_type,
                         past_key_values |-> past_key_values,
                         use_cache |-> use_cache,
                         output_attentions |-> output_attentions,
                         out |-> out]
          /\ err' = out.err
    /\ call' = [op |-> "encoder", debug |-> FALSE]
    /\ ncalls' = ncalls + 1
    /\ UNCHANGED <<cfgT, cfgS, mode, tgt, src, alias, ret, batch, past, fwd,
                   attention, attention_scores>>

NextEncoder ==
    \E past_key_values \in BOOLEAN, use_cache \in BOOLEAN, output_attentions \in BOOLEAN :
        CallEncoder(past_key_values, use_cache, output_attentions)

SpecEncoder == InitEncoder /\ [][NextEncoder]_vars

\* What the caller of the last forward passed for one layer.
PassedCache == IF encoder.past_key_values THEN "past" ELSE "None"

\* C22: when output_attentions is requested, the encoder stack returns
\* exactly one attention-probability tensor per layer, in layer order, for
\* any mix of layer kinds, and each layer receives the caller's
\* output_attentions flag as its output_attentions argument and the
\* caller's cache as its past_key_value argument.
C22_OneAttentionPerLayer ==
    (call.op = "encoder" /\ encoder.output_attentions) =>
        /\ err = ""
        /\ encoder.out.attentions =
               [i \in 1 .. Len(encoder.layers) |-> Item("probs", i)]
        /\ \A i \in 1 .. Len(encoder.layers) :
               /\ encoder.out.received[i].output_attentions = "True"
               /\ encoder.out.received[i].past_key_value = PassedCache

\* C23: in homogeneous mode a transfer that returns leaves each target
\* layer either with all of its blocks (attention, feed-forward, output)
\* equal to the source layer's, or with none of its parameters changed.
C23_HomoLayerAllOrNothing ==
    [][(BothHomo /\ Called /\ err' = "") =>
          \A i \in 1 .. NumLayers(cfgT) :
              \/ Transferred(LayerKeys(cfgT, i))
              \/ Untouched(LayerKeys(cfgT, i))]_vars

\* tensor.fill_(...) on the tensor behind an attribute of the target: an
\* in-place change made after the transfer.
ChangedInPlace(key) ==
    TPut(Here, key, NewTensor("C", key, TGet(Here, key).sh))

\* C24: after a transfer that returns, no parameter tensor is shared
\* between the source and the target: an in-place change of any target
\* parameter leaves every source parameter as it was.
C24_NoTensorShared ==
    Returned => \A key \in DOMAIN tgt : ChangedInPlace(key).src = src

(* ---------------------------------------------------------------------- *)
(* From the stacked scores to the attention probabilities, for a batch of *)
(* one: the scores are indexed [head][query position][key position].      *)
(* Real numbers are kept as terms: a probability is written as the        *)
(* element that is exponentiated over the elements its exponentials are   *)
(* summed with, in the order of the axis.                                 *)
(* ---------------------------------------------------------------------- *)
ScoreHeads == 2
ScoreLen == 2
MaxScore == 1

ScoreRows == [1 .. ScoreLen -> [1 .. ScoreLen -> 0 .. MaxScore]]

\* attention_scores / sqrt(attention_head_size) + attention_mask, at one
\* element; the mask has one value per key position, for all heads.
Masked(x, attention_mask, h, q, k) ==
    [score |-> x[h][q][k],
     mask |-> IF attention_mask = <<>> THEN 0 ELSE attention_mask[k]]

\* nn.Softmax(dim=1): the exponentials are summed over the heads.
SoftmaxOverHeads(x, attention_mask, h, q, k) ==
    [exp |-> Masked(x, attention_mask, h, q, k),
     over |-> [g \in 1 .. Len(x) |-> Masked(x, attention_mask, g, q, k)]]

\* nn.Softmax(dim=-1): the exponentials are summed over the key positions
\* of the same head and query position.
Softmax(x, attention_mask, h, q, k) ==
    [exp |-> Masked(x, attention_mask, h, q, k),
     over |-> [j \in 1 .. Len(x[h][q]) |-> Masked(x, attention_mask, h, q, j)]]

\* attention_probs * head_mask, the mask holding one factor per head.
HeadMasked(p, head_mask, h) ==
    IF head_mask = <<>> THEN p ELSE [p |-> p, times |-> head_mask[h]]

\* The attention probabilities; the dropout is the identity (evaluation).
AttentionProbs(x, attention_mask, head_mask) ==
    [h \in 1 .. Len(x) |->
        [q \in 1 .. Len(x[h]) |->
            [k \in 1 .. Len(x[h][q]) |->
                HeadMasked(Softmax(x, attention_mask, h, q, k), head_mask, h)]]]

\* None is written <<>>.
AttentionMasks == {<<>>} \cup [1 .. ScoreLen -> {0, -10000}]
HeadMasks == {<<>>} \cup [1 .. ScoreHeads -> {0, 1}]

\* One forward call's stacked scores, masks and probabilities; `replaced`
\* is the head whose scores differ from the call before, 0 for none.
Scored(x, attention_mask, head_mask, h) ==
    [scores |-> x, attention_mask |-> attention_mask, head_mask |-> head_mask,
     probs |-> AttentionProbs(x, attention_mask, head_mask), replaced |-> h]

InitScores ==
    /\ cfgT = [hetero |-> TRUE, rel |-> FALSE, layers |-> <<HeteroBase>>, dec |-> FALSE]
    /\ cfgS = cfgT
    /\ mode = "OD"
    /\ tgt = NoTensors
    /\ src = NoTensors
    /\ alias = NoAlias
    /\ call = [op |-> "none", debug |-> FALSE]
    /\ ret = NoReturn
    /\ err = ""
    /\ ncalls = 0
    /\ batch = 1
    /\ past = NoCache
    /\ fwd = NoForward
    /\ encoder = NoEncoder
    /\ attention = NoAttention
    /\ \E attention_mask \in AttentionMasks, head_mask \in HeadMasks :
           attention_scores =
               Scored([h \in 1 .. ScoreHeads |-> [q \in 1 .. ScoreLen |-> [k \in 1 .. ScoreLen |-> 0]]],
                      attention_mask, head_mask, 0)

\* The same call again, with other scores for head h and all else equal.
ReplaceScores(h, rows) ==
    /\ ncalls < MaxCalls
    /\ rows # attention_scores.scores[h]
    /\ attention_scores' =
           Scored([attention_scores.scores EXCEPT ![h] = rows],
                  attention_scores.attention_mask, attention_scores.head_mask, h)
    /\ call' = [op |-> "scores", debug |-> FALSE]
    /\ ncalls' = ncalls + 1
    /\ UNCHANGED <<cfgT, cfgS, mode, tgt, src, alias, ret, err, batch, past, fwd,
                   encoder, attention>>

NextScores == \E h \in 1 .. ScoreHeads, rows \in ScoreRows : ReplaceScores(h, rows)

SpecScores == InitScores /\ [][NextScores]_vars

\* C25: the attention probabilities of one head depend only on that
\* head's own scores: when another head's scores are replaced and all else
\* is the same, this head's probabilities are the same.
C25_ProbsDependOnOwnScores ==
    [][\A h \in 1 .. ScoreHeads :
          attention_scores'.scores[h] = attention_scores.scores[h]
              => attention_scores'.probs[h] = attention_scores.probs[h]]_vars

\* The scores of head 1 have been replaced, with rows that are not
\* constant, under an attention mask and a head mask.
C25_Witness ==
    /\ attention_scores # NoScores
    /\ attention_scores.replaced = 1
    /\ attention_scores.attention_mask # <<>>
    /\ attention_scores.head_mask # <<>>
    /\ attention_scores.scores[1][1][1] # attention_scores.scores[1][1][2]
    /\ attention_scores.scores[1] # attention_scores.scores[2]

\* The output block of layer i of the built model has a proj_head.
HasProj(i) == <<"out", i, "proj.w", 0>> \in DOMAIN tgt

\* The width of what the output block of layer i returns: the rows of
\* proj_head if there is one, the width of LayerNorm otherwise.
OutputWidth(i) ==
    IF HasProj(i) THEN tgt[<<"out", i, "proj.w", 0>>].sh[1]
    ELSE tgt[<<"out", i, "LN.w", 0>>].sh[1]

\* C26: in a built model the output block of layer i has a width
\* projection if and only if i is not the last layer and the hidden sizes
\* of layers i and i + 1 differ; the output width of layer i is the hidden
\* size of layer i + 1, and that of the last layer its own hidden size.
C26_ProjectionIffWidthsDiffer ==
    (Constructed /\ err = "") =>
        \A i \in 1 .. NumLayers(cfgT) :
            /\ HasProj(i) <=>
                   (i < NumLayers(cfgT) /\ Hidden(cfgT, i) # Hidden(cfgT, i + 1))
            /\ OutputWidth(i) =
                   IF i < NumLayers(cfgT) THEN Hidden(cfgT, i + 1)
                   ELSE Hidden(cfgT, NumLayers(cfgT))

\* A model of two layers of different hidden sizes has been built.
C26_Witness ==
    /\ Constructed /\ err = ""
    /\ NumLayers(cfgT) = 2
    /\ Hidden(cfgT, 1) # Hidden(cfgT, 2)
    /\ HasProj(1) /\ ~HasProj(2)

\* The layer a parameter belongs to, and the layer a value was taken from.
IsLayerKey(key) == key[1] \in {"self", "aout", "ffn", "out"}
LayerOfValue(v) == v[2][2]

\* C27: layer alignment is positional: whatever a call changes in target
\* layer i comes from source layer i, and every target layer beyond the
\* smaller of the two numbers of layers keeps all of its parameters.
C27_LayersAlignedByPosition ==
    [][Called =>
          /\ \A e \in Entries :
                 (IsLayerKey(e[1]) /\ Changed(e)) =>
                     \A v \in {TGet(After, e[1]).v[e[2]]} :
                         /\ v[1] # "T"
                         /\ IsLayerKey(v[2])
                         /\ LayerOfValue(v) = e[1][2]
          /\ \A key \in KeysFrom(Min(NumLayers(cfgT), NumLayers(cfgS)) + 1) :
                 TGet(After, key) = TGet(Here, key)]_vars

\* A call has written layer 1 of a target that has more layers than the
\* source.
C27_Witness ==
    /\ call.op # "none"
    /\ NumLayers(cfgT) > NumLayers(cfgS)
    /\ \E key \in DOMAIN tgt :
           /\ IsLayerKey(key) /\ key[2] = 1
           /\ \E ix \in IdxSet(tgt[key].sh) : tgt[key].v[ix][1] # "T"

\* The statements of the same call made with the other value of debug.
ProgramOtherDebug ==
    IF call'.op = "bert" THEN BertStatements(cfgT, cfgS, mode, ~call'.debug)
    ELSE MLMStatements(cfgT, cfgS, mode, ~call'.debug)

\* C28: the result of a transfer does not depend on the debug flag: from
\* the same source and the same initial target, the call with debug=True
\* and the call with debug=False leave the target with the same parameter
\* values and return the same ratio.
C28_DebugFlagIrrelevant ==
    [][Called =>
          \E seed \in SeedsOf(mode) :
              \A st \in {Run(Entry, ProgramOtherDebug, 1, seed)} :
                  /\ StateDict(st) = StateDict(After)
                  /\ RetOf(st) = ret']_vars

\* C29: a call of load_model_from_source that raises leaves the target's
\* parameters as they were before the call: a failed transfer is never a
\* partial transfer.
C29_FailedTransferChangesNothing ==
    [][(Called /\ err' # "") => StateDict(After) = StateDict(Here)]_vars

(* ---------------------------------------------------------------------- *)
(* prune_heads of an attention block.  The block's bookkeeping: the       *)
(* number of heads and the sizes its self-attention holds, the output     *)
(* width of query/key/value and the input width of output.dense, and      *)
(* pruned_heads.  `original` is the head count at construction and        *)
(* `asked` the heads named by the calls that returned.  Heads are         *)
(* numbered from 0.                                                       *)
(* ---------------------------------------------------------------------- *)
MaxHeads == 3
MaxHeadSize == 2
MaxPrunes == 3
MaxPruneList == 2

Range(s) == {s[n] : n \in DOMAIN s}

\* The position a head has among the heads that are left.
Shifted(head, already_pruned_heads) ==
    head - Cardinality({h \in already_pruned_heads : h < head})

\* find_pruneable_heads_and_indices(heads, n_heads, head_size,
\* already_pruned_heads): the heads not pruned before, as a set, and the
\* rows that stay; a head beyond the heads that are left is an IndexError.
FindPruneableHeadsAndIndices(heads, n_heads, head_size, already_pruned_heads) ==
    LET new == Range(heads) \ already_pruned_heads
        gone == {Shifted(head, already_pruned_heads) : head \in new}
    IN [heads |-> new,
        index |-> {h * head_size + d : h \in (0 .. n_heads - 1) \ gone,
                                       d \in 0 .. head_size - 1},
        err |-> IF \E h \in gone : h >= n_heads THEN "IndexError" ELSE ""]

\* prune_linear_layer(layer, index, dim): the width of the pruned axis.
PruneLinearLayer(index) == Cardinality(index)

\* The block as its constructor leaves it.
NewBlock(n_heads, head_size, hidden) ==
    [original |-> n_heads,
     num_attention_heads |-> n_heads,
     attention_head_size |-> head_size,
     all_head_size |-> n_heads * head_size,
     query_out |-> n_heads * head_size,
     dense_in |-> hidden,
     pruned_heads |-> {},
     asked |-> {}]

\* prune_heads gone wrong: the count goes down by the length of the list
\* the caller passed, not by the number of heads found pruneable.
PruneHeadsByListLength(a, heads) ==
    IF Len(heads) = 0 THEN [block |-> a, err |-> ""]
    ELSE LET found == FindPruneableHeadsAndIndices(heads, a.num_attention_heads,
                          a.attention_head_size, a.pruned_heads)
             left == a.num_attention_heads - Len(heads)
         IN IF found.err # "" THEN [block |-> a, err |-> found.err]
            ELSE [err |-> "", block |->
                 [a EXCEPT !.query_out = PruneLinearLayer(found.index),
                           !.dense_in = PruneLinearLayer(found.index),
                           !.num_attention_heads = left,
                           !.all_head_size = a.attention_head_size * left,
                           !.pruned_heads = @ \cup found.heads,
                           !.asked = @ \cup Range(heads)]]

\* BertAttentionModular.prune_heads(heads) and
\* ConvBertAttentionModular.prune_heads(heads), which read the same.
PruneHeads(a, heads) ==
    IF Len(heads) = 0 THEN [block |-> a, err |-> ""]
    ELSE LET found == FindPruneableHeadsAndIndices(heads, a.num_attention_heads,
                          a.attention_head_size, a.pruned_heads)
             left == a.num_attention_heads - Cardinality(found.heads)
         IN IF found.err # "" THEN [block |-> a, err |-> found.err]
            ELSE [err |-> "", block |->
                 [a EXCEPT !.query_out = PruneLinearLayer(found.index),
                           !.dense_in = PruneLinearLayer(found.index),
                           !.num_attention_heads = left,
                           !.all_head_size = a.attention_head_size * left,
                           !.pruned_heads = @ \cup found.heads,
                           !.asked = @ \cup Range(heads)]]

\* The lists of heads a caller may pass: empty, with a head named twice,
\* with a head the block never had.
PruneLists == UNION {[1 .. n -> 0 .. MaxHeads] : n \in 0 .. MaxPruneList}

InitPrune ==
    /\ cfgT = [hetero |-> TRUE, rel |-> FALSE, layers |-> <<HeteroBase>>, dec |-> FALSE]
    /\ cfgS = cfgT
    /\ mode = "OD"
    /\ tgt = NoTensors
    /\ src = NoTensors
    /\ alias = NoAlias
    /\ call = [op |-> "none", debug |-> FALSE]
    /\ ret = NoReturn
    /\ err = ""
    /\ ncalls = 0
    /\ batch = 1
    /\ past = NoCache
    /\ fwd = NoForward
    /\ encoder = NoEncoder
    /\ attention_scores = NoScores
    /\ \E n_heads \in 1 .. MaxHeads, head_size \in 1 .. MaxHeadSize :
           attention = NewBlock(n_heads, head_size, n_heads * head_size)

\* model._prune_heads({layer: heads}), for the layer of the block.
CallPruneHeads(heads) ==
    /\ ncalls < MaxPrunes
    /\ LET out == PruneHeads(attention, heads)
       IN /\ attention' = out.block
          /\ err' = out.err
    /\ call' = [op |-> "prune_heads", debug |-> FALSE, heads |-> heads]
    /\ ncalls' = ncalls + 1
    /\ UNCHANGED <<cfgT, cfgS, mode, tgt, src, alias, ret, batch, past, fwd,
                   encoder, attention_scores>>

NextPrune == \E heads \in PruneLists : CallPruneHeads(heads)

SpecPrune == InitPrune /\ [][NextPrune]_vars

\* What the block's bookkeeping is to satisfy.
Bookkeeping(a) ==
    /\ a.all_head_size = a.attention_head_size * a.num_attention_heads
    /\ a.num_attention_heads = a.original - Cardinality(a.asked)
    /\ a.pruned_heads = a.asked
    /\ a.query_out = a.all_head_size

\* C30: after any sequence of prune_heads calls on an attention block,
\* all_head_size is attention_head_size times num_attention_heads,
\* num_attention_heads is the original head count minus the number of
\* distinct heads pruned so far, pruned_heads is the union of all heads
\* pruned so far, and a call with an empty list changes nothing.
C30_PruneBookkeeping ==
    [][/\ Bookkeeping(attention')
       /\ (Len(call'.heads) = 0) => attention' = attention]_vars

\* Three calls have returned: heads pruned, one of them named again later,
\* and heads are left.
C30_Witness ==
    /\ ncalls = MaxPrunes /\ err = ""
    /\ Cardinality(attention.pruned_heads) = 2
    /\ attention.num_attention_heads = 1
    /\ call.op = "prune_heads" /\ Len(call.heads) = 2
    /\ call.heads[1] = call.heads[2]
====
